---------------------------- MODULE Spec2Model ----------------------------
(***************************************************************************)
(* A model of phantom-zone's multi-party FHE runtime: the multi-party      *)
(* LWE decryption protocol and the interactive public-key round            *)
(* (src/src/multi_party.rs), RLWE encryption and decryption                *)
(* (src/src/rgsw/keygen.rs), the FheUint8 front-end                        *)
(* (src/src/shortint/mod.rs) and the programmable bootstrap                *)
(* (src/src/pbs.rs).                                                       *)
(***************************************************************************)
EXTENDS Integers, Sequences, FiniteSets, TLC

VARIABLES
    \* ---- multi-party LWE decryption (multi_party.rs:56-107) ----
    lwe_ct,        \* the LWE ciphertext (b, a_1..a_n) being decrypted
    lwe_sk,        \* party -> that party's ternary LWE secret z_i
    dec_shares,    \* party -> the decryption share it sent (None before that)
    dec_order,     \* the parties in the order the aggregator summed their shares
    dec_out,       \* the value the aggregator returned
    dec_status     \* "idle", "running", "value", "panic"

VARIABLES
    \* ---- interactive round 1: public key shares (multi_party.rs:16-54) ----
    crs,           \* the output stream of a p_rng seeded with the CRS
    rlwe_sk,       \* party -> that party's ternary RLWE secret s_i
    pk_shares,     \* party -> the public key share it published (None before that)
    pk_order,      \* the parties in the order the aggregator summed their shares
    pk_sum,        \* the aggregated part b of the collective public key
    pk_status      \* "idle", "running", "aggregated"

VARIABLES
    \* ---- RLWE encryption and decryption of one client (rgsw/keygen.rs) ----
    rl_s,          \* the client's ternary RLWE secret s
    rl_crs,        \* the output stream of a p_rng seeded with the public seed
    rl_pk,         \* the RLWE public key (p_0, p_1), None before it is generated
    rl_ct,         \* the last ciphertext produced, with the values that went into it
    rl_m_out,      \* the output of decrypt_rlwe, None before decryption
    rl_status      \* "idle", "running"

VARIABLES
    \* ---- FheUint8: encryption, arithmetic and decryption (shortint/mod.rs) ----
    u8_sk,         \* the LWE secrets behind the key: one client's, or one per party
    u8_m,          \* the clear operands <<m0, m1>>, None before encryption
    u8_c,          \* the FheUint8 ciphertexts <<c0, c1>> of the operands
    u8_res,        \* the result of the operator applied to c0 and c1, None before
    u8_shares,     \* party -> its decryption share of c0 (with its noise) or None
    u8_out,        \* the outcome of the one decryption entry point that was called
    u8_status      \* "idle", "client" (single key) or "parties" (multi-party key)

VARIABLES
    \* ---- programmable bootstrapping (pbs.rs) ----
    pbs_par,       \* the parameter set (PbsInfo): rlwe_n, br_q, g, w
    pbs_pc,        \* the position of the call of pbs
    pbs_lwe_in,    \* lwe_in: the input, a temporary, then the output
    pbs_scratch,   \* scratch_lwe_vec: the key-switched LWE ciphertext
    pbs_g_k_si,    \* g_k_si: bucket k holds the LWE indices with discrete log k
    pbs_rlwe,      \* trivial_rlwe_test_poly: rows part A and part B
    pbs_br,        \* the locals of blind_rotation: i, v, is_trivial
    pbs_trace,     \* the bucket reads and RLWE operations of blind_rotation, in order
    pbs_err        \* "none", or the kind of failure the call ran into

VARIABLES
    \* ---- one call of a function of the library on its own ----
    call_args,     \* the function called and its arguments
    call_ret       \* what the call has returned, None before it returns

decVars == <<lwe_ct, lwe_sk, dec_shares, dec_order, dec_out, dec_status>>
pkVars == <<crs, rlwe_sk, pk_shares, pk_order, pk_sum, pk_status>>
rlVars == <<rl_s, rl_crs, rl_pk, rl_ct, rl_m_out, rl_status>>
u8Vars == <<u8_sk, u8_m, u8_c, u8_res, u8_shares, u8_out, u8_status>>
pbsVars == <<pbs_par, pbs_pc, pbs_lwe_in, pbs_scratch, pbs_g_k_si, pbs_rlwe, pbs_br,
             pbs_trace, pbs_err>>
callVars == <<call_args, call_ret>>

vars == <<lwe_ct, lwe_sk, dec_shares, dec_order, dec_out, dec_status,
          crs, rlwe_sk, pk_shares, pk_order, pk_sum, pk_status,
          rl_s, rl_crs, rl_pk, rl_ct, rl_m_out, rl_status,
          u8_sk, u8_m, u8_c, u8_res, u8_shares, u8_out, u8_status,
          pbs_par, pbs_pc, pbs_lwe_in, pbs_scratch, pbs_g_k_si, pbs_rlwe, pbs_br,
          pbs_trace, pbs_err,
          call_args, call_ret>>

-----------------------------------------------------------------------------
(* Bounds of the model *)

\* number of parties of a session
NumParties == 2

Parties == 1..NumParties

-----------------------------------------------------------------------------
(* Generic helpers *)

\* the sum of f[j] for j in lo..hi
RECURSIVE SumOver(_, _, _)
SumOver(f, lo, hi) == IF lo > hi THEN 0 ELSE f[lo] + SumOver(f, lo + 1, hi)

\* all sequences of length n over S
SeqsOf(S, n) == [1..n -> S]

\* the injective sequences over a finite set S that use every element once
Orderings(S) ==
    { f \in [1..Cardinality(S) -> S] : \A i, j \in 1..Cardinality(S) : f[i] = f[j] => i = j }

-----------------------------------------------------------------------------
(* LWE parameters and the modular operator of the LWE modulus              *)

\* LWE dimension n (the length of an LWE secret)
LweN == 2
\* LWE ciphertext modulus (mod_op.modulus())
LweQ == 3

ZLweQ == 0..(LweQ - 1)

\* ArithmeticOps::add / mul / neg of the modular backend
ModAdd(q, a, b) == (a + b) % q
ModMul(q, a, b) == (a * b) % q
ModNeg(q, a) == (q - a) % q

\* TryConvertFrom1<[S], Modulus>: a signed secret coefficient as an element mod q
TryConvertFrom(q, s) == [j \in 1..Len(s) |-> IF s[j] < 0 THEN q - (-s[j]) ELSE s[j]]

\* VectorOps::elwise_neg_mut
ElwiseNeg(q, r) == [j \in 1..Len(r) |-> ModNeg(q, r[j])]

\* the ternary secrets of length n
TernarySecrets(n) == SeqsOf({-1, 0, 1}, n)

\* ternary secrets of length n with exactly h non-zero coefficients
\* (fill_random_ternary_secret_with_hamming_weight)
TernaryWithHammingWeight(n, h) ==
    { s \in TernarySecrets(n) : Cardinality({ j \in 1..n : s[j] # 0 }) = h }

\* the joint secret: the coefficient-wise sum over the integers of the parties' secrets
JointSecret(sk, n) ==
    [j \in 1..n |-> SumOver([i \in Parties |-> sk[i][j]], 1, NumParties)]

\* <a, z> for the part a of an LWE ciphertext, over the integers
InnerProduct(ct, z) == SumOver([j \in 1..Len(z) |-> ct[j + 1] * z[j]], 1, Len(z))

\* the values the Gaussian rng of a decryption share returns (as elements mod q)
LweNoise == {0, LweQ - 1}

-----------------------------------------------------------------------------
(* multi_party_decryption_share and                                        *)
(* multi_party_aggregate_decryption_shares_and_decrypt                     *)

\* izip!(neg_s, lwe_ct.skip(1)).for_each(|(si, ai)| share = add(share, mul(si, ai)))
RECURSIVE ShareFold(_, _, _, _, _)
ShareFold(q, neg_s, ct, j, share) ==
    IF j > Len(neg_s) \/ j + 1 > Len(ct) THEN share
    ELSE ShareFold(q, neg_s, ct, j + 1,
                   ModAdd(q, share, ModMul(q, neg_s[j], ct[j + 1])))

\* the assertion of multi_party_decryption_share
DecryptionShareAsserts(ct, s) == Len(ct) = Len(s) + 1

\* a share computed from s instead of -s
DecryptionShareNotNegated(q, ct, s, e) ==
    ModAdd(q, ShareFold(q, TryConvertFrom(q, s), ct, 1, 0), e)

\* the share (\sum -s_i * a_i) + e, where e is the value drawn from rng
multi_party_decryption_share(q, ct, s, e) ==
    LET neg_s == ElwiseNeg(q, TryConvertFrom(q, s))
        share == ShareFold(q, neg_s, ct, 1, 0)
    IN  ModAdd(q, share, e)

\* shares.iter().for_each(|v| sum_shares = add(sum_shares, v))
RECURSIVE SumSharesFold(_, _, _, _)
SumSharesFold(q, shares, j, sum_shares) ==
    IF j > Len(shares) THEN sum_shares
    ELSE SumSharesFold(q, shares, j + 1, ModAdd(q, sum_shares, shares[j]))

\* an aggregation that subtracts the running sum from each share
RECURSIVE SumSharesSwappedSub(_, _, _, _)
SumSharesSwappedSub(q, shares, j, sum_shares) ==
    IF j > Len(shares) THEN sum_shares
    ELSE SumSharesSwappedSub(q, shares, j + 1, ModAdd(q, shares[j], ModNeg(q, sum_shares)))

AggregateSwappedSub(q, ct, shares) ==
    ModAdd(q, ct[1], SumSharesSwappedSub(q, shares, 1, 0))

multi_party_aggregate_decryption_shares_and_decrypt(q, ct, shares) ==
    ModAdd(q, ct[1], SumSharesFold(q, shares, 1, 0))

-----------------------------------------------------------------------------
(* The multi-party decryption protocol as a state machine *)

\* an LWE ciphertext of the right length, one element short, one element long
LweShapes == {"ok", "short", "long"}
ShapedCt(ct, shape) ==
    CASE shape = "ok" -> ct
      [] shape = "short" -> SubSeq(ct, 1, Len(ct) - 1)
      [] shape = "long" -> Append(ct, 0)

\* the value of an optional that holds nothing
None == [none |-> TRUE]

\* the state of a part of the program that is not in use
DecIdle ==
    /\ lwe_ct = <<>>
    /\ lwe_sk = <<>>
    /\ dec_shares = <<>>
    /\ dec_order = <<>>
    /\ dec_out = 0
    /\ dec_status = "idle"

PkIdle ==
    /\ crs = <<>>
    /\ rlwe_sk = <<>>
    /\ pk_shares = <<>>
    /\ pk_order = <<>>
    /\ pk_sum = <<>>
    /\ pk_status = "idle"

RlIdle ==
    /\ rl_s = <<>>
    /\ rl_crs = <<>>
    /\ rl_pk = None
    /\ rl_ct = None
    /\ rl_m_out = None
    /\ rl_status = "idle"

U8Idle ==
    /\ u8_sk = <<>>
    /\ u8_m = None
    /\ u8_c = None
    /\ u8_res = None
    /\ u8_shares = <<>>
    /\ u8_out = None
    /\ u8_status = "idle"

PbsIdle ==
    /\ pbs_par = None
    /\ pbs_pc = "idle"
    /\ pbs_lwe_in = <<>>
    /\ pbs_scratch = <<>>
    /\ pbs_g_k_si = <<>>
    /\ pbs_rlwe = <<>>
    /\ pbs_br = None
    /\ pbs_trace = <<>>
    /\ pbs_err = "none"

CallIdle ==
    /\ call_args = None
    /\ call_ret = None

InitDec ==
    /\ \E ct \in SeqsOf(ZLweQ, LweN + 1), shape \in LweShapes :
            lwe_ct = ShapedCt(ct, shape)
    /\ lwe_sk \in [Parties -> TernaryWithHammingWeight(LweN, LweN \div 2)]
    /\ dec_shares = [i \in Parties |-> None]
    /\ dec_order = <<>>
    /\ dec_out = 0
    /\ dec_status = "running"

\* the parties whose share is out
SharedBy(shares) == { i \in DOMAIN shares : shares[i] # None }

\* party i runs multi_party_decryption_share on the ciphertext and sends the share
GenDecryptionShare(i, e) ==
    /\ dec_status = "running"
    /\ dec_shares[i] = None
    /\ IF DecryptionShareAsserts(lwe_ct, lwe_sk[i])
       THEN /\ dec_shares' = [dec_shares EXCEPT ![i] =
                    [e |-> e,
                     share |-> multi_party_decryption_share(LweQ, lwe_ct, lwe_sk[i], e)]]
            /\ UNCHANGED dec_status
       ELSE /\ dec_status' = "panic"
            /\ UNCHANGED dec_shares
    /\ UNCHANGED <<lwe_ct, lwe_sk, dec_order, dec_out>>
    /\ UNCHANGED <<pkVars, rlVars, u8Vars, pbsVars, callVars>>

\* a party aggregates the shares it has received, however many these are, in the
\* order `order` in which they reached it
AggregateDecryptionShares(order) ==
    /\ dec_status = "running"
    /\ dec_order' = order
    /\ dec_out' = multi_party_aggregate_decryption_shares_and_decrypt(
                      LweQ, lwe_ct, [j \in 1..Len(order) |-> dec_shares[order[j]].share])
    /\ dec_status' = "value"
    /\ UNCHANGED <<lwe_ct, lwe_sk, dec_shares>>
    /\ UNCHANGED <<pkVars, rlVars, u8Vars, pbsVars, callVars>>

NextDec ==
    \/ \E i \in Parties, e \in LweNoise : GenDecryptionShare(i, e)
    \/ \E order \in Orderings(SharedBy(dec_shares)) : AggregateDecryptionShares(order)

-----------------------------------------------------------------------------
(* The ring Z_Q[X]/(X^N+1): parameters, modular vector operators, NTT      *)

\* ring size N of the RLWE ring (share_out.as_ref().len(), s.len())
RingN == 2
\* RLWE ciphertext modulus Q, an NTT-friendly prime (2N divides Q-1)
RlweQ == 5
\* a primitive 2N-th root of unity mod Q (Psi^N = -1 mod Q)
Psi == 2

ZRlweQ == 0..(RlweQ - 1)
\* polynomials are sequences of N coefficients, coefficient i at position i+1
Polys == SeqsOf(ZRlweQ, RingN)
ZeroPoly == [j \in 1..RingN |-> 0]

RECURSIVE ModPow(_, _, _)
ModPow(q, b, e) == IF e = 0 THEN 1 % q ELSE (b * ModPow(q, b, e - 1)) % q

ModInv(q, a) == CHOOSE x \in 1..(q - 1) : (a * x) % q = 1


\* VectorOps::elwise_add_mut, elwise_mul_mut, elwise_scalar_mul
ElwiseAdd(q, a, b) == [j \in 1..Len(a) |-> ModAdd(q, a[j], b[j])]
ElwiseMul(q, a, b) == [j \in 1..Len(a) |-> ModMul(q, a[j], b[j])]
ElwiseScalarMul(q, a, c) == [j \in 1..Len(a) |-> ModMul(q, a[j], c)]

\* the tables an NTT operator is built with: the powers of Psi and of its inverse,
\* and the inverse of N
PsiPowers == [e \in 0..(2 * RingN - 1) |-> ModPow(RlweQ, Psi, e)]
PsiInvPowers == [e \in 0..(2 * RingN - 1) |-> ModPow(RlweQ, ModInv(RlweQ, Psi), e)]
RingNInv == ModInv(RlweQ, RingN % RlweQ)

\* Ntt::forward: the negacyclic NTT, evaluation at the odd powers of Psi
NttForward(p) ==
    [j \in 1..RingN |->
        LET term == [i \in 0..(RingN - 1) |->
                        p[i + 1] * PsiPowers[((2 * (j - 1) + 1) * i) % (2 * RingN)]]
        IN  SumOver(term, 0, RingN - 1) % RlweQ]

\* Ntt::backward: the inverse transform
NttBackward(h) ==
    [i \in 1..RingN |->
        LET term == [j \in 0..(RingN - 1) |->
                        h[j + 1] * PsiInvPowers[((2 * j + 1) * (i - 1)) % (2 * RingN)]]
        IN  (RingNInv * SumOver(term, 0, RingN - 1)) % RlweQ]

\* the product of a and b in Z_Q[X]/(X^N+1), by the schoolbook negacyclic convolution
NegacyclicMul(a, b) ==
    [k \in 1..RingN |->
        LET term == [i \in 0..(RingN - 1) |->
                        LET j == (k - 1) - i
                        IN  IF j >= 0 THEN a[i + 1] * b[j + 1]
                            ELSE -(a[i + 1] * b[j + RingN + 1])]
        IN  SumOver(term, 0, RingN - 1) % RlweQ]

\* the polynomials a Gaussian random_fill writes (as elements mod Q)
RlweNoise == { <<0, 0>>, <<1, RlweQ - 1>> }

\* RandomFillUniformInModulus::random_fill on a seeded p_rng: the next polynomial
\* of the generator's output stream; the generator moves on by one polynomial
PRngFill(p_rng) == [a |-> Head(p_rng), p_rng |-> Tail(p_rng)]

-----------------------------------------------------------------------------
(* public_key_share *)

\* a share whose product s*a is left in the evaluation domain
PublicKeyShareNoBackward(s_i, p_rng, e) ==
    LET drawn == PRngFill(p_rng)
        a == NttForward(drawn.a)
        s0 == NttForward(TryConvertFrom(RlweQ, s_i))
        s1 == ElwiseMul(RlweQ, s0, a)
    IN  [share |-> ElwiseAdd(RlweQ, e, s1), a |-> drawn.a, p_rng |-> drawn.p_rng]

public_key_share(s_i, p_rng, e) ==
    LET drawn == PRngFill(p_rng)
        a == NttForward(drawn.a)
        s0 == NttForward(TryConvertFrom(RlweQ, s_i))
        s1 == ElwiseMul(RlweQ, s0, a)
        s2 == NttBackward(s1)
        share_out == ElwiseAdd(RlweQ, e, s2)
    IN  [share |-> share_out, a |-> drawn.a, p_rng |-> drawn.p_rng]

\* aggregate_public_key_shares: the element-wise sum over Z_Q of the shares
RECURSIVE SumPolysFold(_, _, _)
SumPolysFold(shares, j, sum) ==
    IF j > Len(shares) THEN sum
    ELSE SumPolysFold(shares, j + 1, ElwiseAdd(RlweQ, sum, shares[j]))

aggregate_public_key_shares(shares) == SumPolysFold(shares, 1, ZeroPoly)

-----------------------------------------------------------------------------
(* Interactive round 1 as a state machine *)

InitPk ==
    /\ crs \in SeqsOf(Polys, 1)
    /\ rlwe_sk \in [Parties -> TernaryWithHammingWeight(RingN, RingN \div 2)]
    /\ pk_shares = [i \in Parties |-> None]
    /\ pk_order = <<>>
    /\ pk_sum = <<>>
    /\ pk_status = "running"

\* party i seeds its p_rng with the CRS, generates its share and publishes it
PublishPublicKeyShare(i, e) ==
    /\ pk_status = "running"
    /\ pk_shares[i] = None
    /\ LET r == public_key_share(rlwe_sk[i], crs, e)
       IN  pk_shares' = [pk_shares EXCEPT ![i] =
                [e |-> e, a |-> r.a, share |-> r.share, p_rng |-> r.p_rng]]
    /\ UNCHANGED <<crs, rlwe_sk, pk_order, pk_sum, pk_status>>
    /\ UNCHANGED <<decVars, rlVars, u8Vars, pbsVars, callVars>>

\* once every party has published, the shares are summed in the order `order`
AggregatePublicKeyShares(order) ==
    /\ pk_status = "running"
    /\ SharedBy(pk_shares) = Parties
    /\ pk_order' = order
    /\ pk_sum' = aggregate_public_key_shares(
                    [j \in 1..Len(order) |-> pk_shares[order[j]].share])
    /\ pk_status' = "aggregated"
    /\ UNCHANGED <<crs, rlwe_sk, pk_shares>>
    /\ UNCHANGED <<decVars, rlVars, u8Vars, pbsVars, callVars>>

NextPk ==
    \/ \E i \in Parties, e \in RlweNoise : PublishPublicKeyShare(i, e)
    \/ \E order \in Orderings(Parties) : AggregatePublicKeyShares(order)

-----------------------------------------------------------------------------
(* RLWE encryption and decryption (rgsw/keygen.rs) *)

\* the assertions of seeded_secret_key_encrypt_rlwe
SeededEncryptAsserts(m, b_rlwe_out, s) == Len(m) = Len(s) /\ Len(b_rlwe_out) = Len(s)

\* returns part B of RLWE(m) = [a, a*s + e + m]; a is the polynomial drawn from p_rng
seeded_secret_key_encrypt_rlwe(m, s, p_rng, e) ==
    LET drawn == PRngFill(p_rng)
        sa0 == NttForward(TryConvertFrom(RlweQ, s))
        a == NttForward(drawn.a)
        sa1 == ElwiseMul(RlweQ, sa0, a)
        sa == NttBackward(sa1)
        b0 == e
        b1 == ElwiseAdd(RlweQ, b0, m)
        b2 == ElwiseAdd(RlweQ, b1, sa)
    IN  [b |-> b2, a |-> drawn.a, p_rng |-> drawn.p_rng]

\* part B of the public key (a, a*s + e); a is the polynomial drawn from p_rng
rlwe_public_key(s, p_rng, e) ==
    LET drawn == PRngFill(p_rng)
        a == NttForward(drawn.a)
        sa0 == NttForward(TryConvertFrom(RlweQ, s))
        sa1 == ElwiseMul(RlweQ, sa0, a)
        sa == NttBackward(sa1)
    IN  [b |-> ElwiseAdd(RlweQ, e, sa), a |-> drawn.a, p_rng |-> drawn.p_rng]

\* an encryption whose part B is computed from row 0 of the public key
PublicKeyEncryptBothRowsFromP0(pk, m, u, e0, e1) ==
    LET u_eval == NttForward(TryConvertFrom(RlweQ, u))
        ua == NttBackward(ElwiseMul(RlweQ, NttForward(pk[1]), u_eval))
    IN  << ElwiseAdd(RlweQ, e0, ua), ElwiseAdd(RlweQ, ElwiseAdd(RlweQ, e1, ua), m) >>

\* RLWE(m) under the public key pk: u is the ephemeral ternary secret drawn from
\* rng, e0 and e1 the Gaussian rows drawn from rng
public_key_encrypt_rlwe(pk, m, u, e0, e1) ==
    LET u_eval == NttForward(TryConvertFrom(RlweQ, u))
        ua == NttBackward(ElwiseMul(RlweQ, NttForward(pk[1]), u_eval))
        ub == NttBackward(ElwiseMul(RlweQ, NttForward(pk[2]), u_eval))
        row0 == ElwiseAdd(RlweQ, e0, ua)
        row1 == ElwiseAdd(RlweQ, e1, ub)
    IN  << row0, ElwiseAdd(RlweQ, row1, m) >>

\* the assertions of decrypt_rlwe
DecryptRlweAsserts(rlwe_ct, s, m_out) ==
    /\ Len(rlwe_ct) = 2
    /\ \A r \in 1..Len(rlwe_ct) : Len(rlwe_ct[r]) = Len(s)
    /\ Len(m_out) = Len(s)

\* a decryption that adds s*a to b
DecryptRlweNotNegated(rlwe_ct, s) ==
    ElwiseAdd(RlweQ,
              NttBackward(ElwiseMul(RlweQ, NttForward(rlwe_ct[1]),
                                    NttForward(TryConvertFrom(RlweQ, s)))),
              rlwe_ct[2])

\* the noisy message b - s*a of the ciphertext [a, b]
decrypt_rlwe(rlwe_ct, s) ==
    LET m0 == NttForward(rlwe_ct[1])
        s_eval == NttForward(TryConvertFrom(RlweQ, s))
        m1 == ElwiseMul(RlweQ, m0, s_eval)
        m2 == ElwiseNeg(RlweQ, m1)
        m3 == NttBackward(m2)
    IN  ElwiseAdd(RlweQ, m3, rlwe_ct[2])

-----------------------------------------------------------------------------
(* One client encrypting and decrypting RLWE ciphertexts *)

InitRl ==
    /\ rl_s \in TernaryWithHammingWeight(RingN, RingN \div 2)
    /\ rl_crs \in SeqsOf(Polys, 1)
    /\ rl_pk = None
    /\ rl_ct = None
    /\ rl_m_out = None
    /\ rl_status = "running"
    /\ DecIdle
    /\ PkIdle
    /\ U8Idle
    /\ PbsIdle
    /\ CallIdle

\* the client encrypts a message m under its secret with a p_rng seeded with the
\* public seed
SecretKeyEncryptRlwe ==
    /\ rl_status = "running"
    /\ rl_ct = None
    /\ \E m \in Polys, e \in RlweNoise :
          /\ SeededEncryptAsserts(m, ZeroPoly, rl_s)
          /\ LET r == seeded_secret_key_encrypt_rlwe(m, rl_s, rl_crs, e)
             IN  rl_ct' = [kind |-> "sk", ct |-> <<r.a, r.b>>, m |-> m, e |-> e,
                           u |-> ZeroPoly, e0 |-> ZeroPoly]
    /\ UNCHANGED <<rl_s, rl_crs, rl_pk, rl_m_out, rl_status>>
    /\ UNCHANGED <<decVars, pkVars, u8Vars, pbsVars, callVars>>

\* the client generates its public key (a, a*s + e)
GenRlwePublicKey(e) ==
    /\ rl_status = "running"
    /\ rl_pk = None
    /\ rl_ct = None
    /\ LET r == rlwe_public_key(rl_s, rl_crs, e)
       IN  rl_pk' = [pk |-> <<r.a, r.b>>, e |-> e]
    /\ UNCHANGED <<rl_s, rl_crs, rl_ct, rl_m_out, rl_status>>
    /\ UNCHANGED <<decVars, pkVars, u8Vars, pbsVars, callVars>>

\* anyone encrypts a message m under the public key
PublicKeyEncryptRlwe ==
    /\ rl_status = "running"
    /\ rl_pk # None
    /\ rl_ct = None
    /\ \E m \in Polys, u \in TernaryWithHammingWeight(RingN, RingN \div 2),
          e0 \in RlweNoise, e1 \in RlweNoise :
          rl_ct' = [kind |-> "pk", ct |-> public_key_encrypt_rlwe(rl_pk.pk, m, u, e0, e1),
                    m |-> m, e |-> e1, u |-> u, e0 |-> e0]
    /\ UNCHANGED <<rl_s, rl_crs, rl_pk, rl_m_out, rl_status>>
    /\ UNCHANGED <<decVars, pkVars, u8Vars, pbsVars, callVars>>

\* the client decrypts the ciphertext with its secret
DecryptRlwe ==
    /\ rl_status = "running"
    /\ rl_ct # None
    /\ rl_m_out = None
    /\ DecryptRlweAsserts(rl_ct.ct, rl_s, ZeroPoly)
    /\ rl_m_out' = [m |-> decrypt_rlwe(rl_ct.ct, rl_s)]
    /\ UNCHANGED <<rl_s, rl_crs, rl_pk, rl_ct, rl_status>>
    /\ UNCHANGED <<decVars, pkVars, u8Vars, pbsVars, callVars>>

NextRl ==
    \/ SecretKeyEncryptRlwe
    \/ \E e \in RlweNoise : GenRlwePublicKey(e)
    \/ PublicKeyEncryptRlwe
    \/ DecryptRlwe

SpecRlwe == InitRl /\ [][NextRl]_vars

-----------------------------------------------------------------------------
(* FheUint8 (shortint/mod.rs): eight bit ciphertexts, least significant first *)

\* the modulus of a bit ciphertext
BoolQ == 64

\* the clear second operands the arithmetic is run on (the first ranges over u8)
UOperands == {0, 1, 3, 16, 85, 128, 170, 255}

\* the clear values decrypted by the parties
UMsgs == {0, 1, 128, 165, 255}

\* mask and noise of a fresh bit ciphertext
BoolRand == { [a |-> <<1, BoolQ - 1>>, e |-> 0], [a |-> <<20, 37>>, e |-> 1] }

\* mask and noise of the bit ciphertext a gate of the evaluator outputs
GateRand == [a |-> <<3, 5>>, e |-> 1]

\* the noise a party adds to every bit of its share
BoolNoise == {0, BoolQ - 1}

\* the secret the bit ciphertexts are encrypted under: the sum of the secrets
IdealSecret(sk) ==
    [j \in 1..LweN |-> SumOver([i \in DOMAIN sk |-> sk[i][j]], 1, Len(sk))]

\* true is encoded as Q/8 and false as -Q/8
BoolEncode(bit) == IF bit THEN BoolQ \div 8 ELSE BoolQ - BoolQ \div 8

\* round(4 * (v + Q/8) / Q) mod 4 is 1 for true and 0 for false
BoolDecode(v) ==
    ((4 * ((v + BoolQ \div 8) % BoolQ) + BoolQ \div 2) \div BoolQ) % 4 = 1

\* Encryptor<bool, Vec<u64>>::encrypt: the LWE ciphertext (b, a) of a bit
BoolEncrypt(bit, z, r) ==
    << (SumOver([j \in 1..Len(z) |-> r.a[j] * z[j]], 1, Len(z)) + r.e + BoolEncode(bit))
           % BoolQ >> \o r.a

\* Decryptor<bool, Vec<u64>>::decrypt
BoolDecrypt(bit_c, z) == BoolDecode((bit_c[1] - InnerProduct(bit_c, z)) % BoolQ)

\* MultiPartyDecryptor<bool, Vec<u64>>::gen_decryption_share
BoolGenDecryptionShare(bit_c, s, e) == multi_party_decryption_share(BoolQ, bit_c, s, e)

\* MultiPartyDecryptor<bool, Vec<u64>>::aggregate_decryption_shares
BoolAggregateDecryptionShares(bit_c, shares) ==
    BoolDecode(multi_party_aggregate_decryption_shares_and_decrypt(BoolQ, bit_c, shares))

\* 1 << index
Shl1(index) == 2 ^ index

\* ((m >> i) & 1) == 1
BitOf(m, i) == (m \div Shl1(i)) % 2 = 1

\* the randomness of the i-th bit encryption of one FheUint8: every call of the
\* bit encryptor draws a mask of its own
BitRand(r, i) == [a |-> [j \in 1..Len(r.a) |-> (r.a[j] + i * j) % BoolQ], e |-> r.e]

\* an encryption that stores the most significant bit first
FheUint8EncryptMsbFirst(m, z, r) ==
    [k \in 1..8 |-> BoolEncrypt(BitOf(m, 8 - k), z, BitRand(r, k - 1))]

\* Encryptor<u8, FheUint8>::encrypt: data[i] encrypts bit i of m, for i in 0..8
FheUint8Encrypt(m, z, r) ==
    [k \in 1..8 |-> BoolEncrypt(BitOf(m, k - 1), z, BitRand(r, k - 1))]

\* an outcome of a call: a panic, or the value returned
Panic == [status |-> "panic", value |-> 0]
Value(v) == [status |-> "value", value |-> v]

\* out += 1 << index on a u8: the addition overflows above 255
RECURSIVE DecryptFold(_, _, _, _)
DecryptFold(data, z, index, out) ==
    IF index >= Len(data) THEN Value(out)
    ELSE IF BoolDecrypt(data[index + 1], z)
         THEN IF index >= 8 \/ out + Shl1(index) > 255
              THEN Panic
              ELSE DecryptFold(data, z, index + 1, out + Shl1(index))
         ELSE DecryptFold(data, z, index + 1, out)

\* Decryptor<u8, FheUint8>::decrypt
FheUint8Decrypt(c, z) ==
    IF Len(c) # 8 THEN Panic ELSE DecryptFold(c, z, 0, 0)

\* a share vector in reverse bit order
GenDecryptionShareReversed(c, s, e) ==
    IF Len(c) # 8 THEN None
    ELSE [k \in 1..Len(c) |-> BoolGenDecryptionShare(c[Len(c) + 1 - k], s, e)]

\* MultiPartyDecryptor<u8, FheUint8>::gen_decryption_share: None stands for the
\* failed assertion
FheUint8GenDecryptionShare(c, s, e) ==
    IF Len(c) # 8 THEN None
    ELSE [k \in 1..Len(c) |-> BoolGenDecryptionShare(c[k], s, e)]

\* the loop over i in 0..8 of aggregate_decryption_shares; s[i] and c.data()[i]
\* panic when the index is out of range
RECURSIVE AggregateFold(_, _, _, _)
AggregateFold(c, shares, i, out) ==
    IF i >= 8 THEN Value(out)
    ELSE IF \E k \in 1..Len(shares) : Len(shares[k]) < i + 1 THEN Panic
    ELSE IF Len(c) < i + 1 THEN Panic
    ELSE LET bit_i_decryption_shares == [k \in 1..Len(shares) |-> shares[k][i + 1]]
             bit_i == BoolAggregateDecryptionShares(c[i + 1], bit_i_decryption_shares)
         IN  IF bit_i
             THEN IF out + Shl1(i) > 255 THEN Panic
                  ELSE AggregateFold(c, shares, i + 1, out + Shl1(i))
             ELSE AggregateFold(c, shares, i + 1, out)

\* MultiPartyDecryptor<u8, FheUint8>::aggregate_decryption_shares
FheUint8AggregateDecryptionShares(c, shares) == AggregateFold(c, shares, 0, 0)

-----------------------------------------------------------------------------
(* The 8-bit circuits of shortint/ops.rs over clear bits (least significant
   first), and the FheUint8 operators that run them on bit ciphertexts *)

Xor(x, y) == x # y

\* the n bits bit(1), ..., bit(n) as a sequence
BitsOf(bit, n) == SubSeq(bit, 1, n)

\* ripple-carry addition: [out, carry]
RECURSIVE AdderFold(_, _, _, _, _)
AdderFold(a, b, i, carry, out) ==
    IF i > Len(a) THEN [out |-> out, carry |-> carry]
    ELSE AdderFold(a, b, i + 1,
                   (a[i] /\ b[i]) \/ (carry /\ Xor(a[i], b[i])),
                   Append(out, Xor(Xor(a[i], b[i]), carry)))

arbitrary_bit_adder(a, b, carry_in) == AdderFold(a, b, 1, carry_in, <<>>)

\* a - b as a + !b + 1: [out, carry]
arbitrary_bit_subtractor(a, b) ==
    arbitrary_bit_adder(a, BitsOf([i \in 1..Len(b) |-> ~b[i]], Len(b)), TRUE)

\* a shifted left by k places within its width
ShiftLeft(a, k) == BitsOf([i \in 1..Len(a) |-> IF i <= k THEN FALSE ELSE a[i - k]], Len(a))

\* shift-and-add multiplication, truncated to the width of a
RECURSIVE MulFold(_, _, _, _)
MulFold(a, b, i, acc) ==
    IF i > Len(b) THEN acc
    ELSE MulFold(a, b, i + 1,
                 IF b[i] THEN arbitrary_bit_adder(acc, ShiftLeft(a, i - 1), FALSE).out
                 ELSE acc)

eight_bit_mul(a, b) == MulFold(a, b, 1, BitsOf([i \in 1..Len(a) |-> FALSE], Len(a)))

\* restoring division, most significant bit of a first; the remainder register
\* is one bit wider than the operands
RECURSIVE DivFold(_, _, _, _, _)
DivFold(a, b, i, rem, quotient) ==
    IF i < 1 THEN [quotient |-> quotient, remainder |-> SubSeq(rem, 1, Len(a))]
    ELSE LET shifted == <<a[i]>> \o SubSeq(rem, 1, Len(a))
             diff == arbitrary_bit_subtractor(shifted, Append(b, FALSE))
         IN  DivFold(a, b, i - 1,
                     IF diff.carry THEN diff.out ELSE shifted,
                     [quotient EXCEPT ![i] = diff.carry])

arbitrary_bit_division_for_quotient_and_rem(a, b) ==
    DivFold(a, b, Len(a), BitsOf([i \in 1..(Len(a) + 1) |-> FALSE], Len(a) + 1),
            BitsOf([i \in 1..Len(a) |-> FALSE], Len(a)))

\* the clear bits under the bit ciphertexts
ClearBits(data, z) == BitsOf([i \in 1..Len(data) |-> BoolDecrypt(data[i], z)], Len(data))

\* the bit ciphertexts the gates of the evaluator output for these bits
GateOutputs(bits, z) ==
    SubSeq([i \in 1..Len(bits) |-> BoolEncrypt(bits[i], z, GateRand)], 1, Len(bits))

\* an addition with the carry-in set
AddAssignCarryIn(self, rhs, z) ==
    GateOutputs(arbitrary_bit_adder(ClearBits(self, z), ClearBits(rhs, z), TRUE).out, z)

\* AddAssign<&FheUint8>::add_assign: the new data of self
add_assign(self, rhs, z) ==
    GateOutputs(arbitrary_bit_adder(ClearBits(self, z), ClearBits(rhs, z), FALSE).out, z)

\* Sub<&FheUint8>::sub
sub(self, rhs, z) ==
    GateOutputs(arbitrary_bit_subtractor(ClearBits(self, z), ClearBits(rhs, z)).out, z)

\* Mul<&FheUint8>::mul
mul(self, rhs, z) ==
    GateOutputs(eight_bit_mul(ClearBits(self, z), ClearBits(rhs, z)), z)

\* a div_rem that hands out the remainder first
DivRemSwapped(self, rhs, z) ==
    LET qr == arbitrary_bit_division_for_quotient_and_rem(ClearBits(self, z),
                                                          ClearBits(rhs, z))
    IN  << GateOutputs(qr.remainder, z), GateOutputs(qr.quotient, z) >>

\* FheUint8::div_rem: <<quotient, remainder>>
div_rem(self, rhs, z) ==
    LET qr == arbitrary_bit_division_for_quotient_and_rem(ClearBits(self, z),
                                                          ClearBits(rhs, z))
    IN  << GateOutputs(qr.quotient, z), GateOutputs(qr.remainder, z) >>

\* a > b, decided from the least significant bit upwards
RECURSIVE ComparatorFold(_, _, _, _)
ComparatorFold(a, b, i, gt_below) ==
    IF i > Len(a) THEN gt_below
    ELSE ComparatorFold(a, b, i + 1, (a[i] /\ ~b[i]) \/ (~Xor(a[i], b[i]) /\ gt_below))

arbitrary_bit_comparator(a, b) == ComparatorFold(a, b, 1, FALSE)

\* a == b: every pair of bits agrees
arbitrary_bit_equality(a, b) == \A i \in 1..Len(a) : ~Xor(a[i], b[i])

\* the bit ciphertext a gate of the evaluator outputs for this bit
GateOutput(bit, z) == BoolEncrypt(bit, z, GateRand)

\* BooleanGates::not_inplace: the negation of every coordinate
not_inplace(c) == ElwiseNeg(BoolQ, c)

\* FheUint8::eq
eq(self, other, z) ==
    GateOutput(arbitrary_bit_equality(ClearBits(self, z), ClearBits(other, z)), z)

\* FheUint8::neq
neq(self, other, z) ==
    not_inplace(GateOutput(arbitrary_bit_equality(ClearBits(self, z), ClearBits(other, z)), z))

\* a comparison that keeps the operands of lt in place
LtNotSwapped(self, other, z) ==
    GateOutput(arbitrary_bit_comparator(ClearBits(self, z), ClearBits(other, z)), z)

\* FheUint8::lt
lt(self, other, z) ==
    GateOutput(arbitrary_bit_comparator(ClearBits(other, z), ClearBits(self, z)), z)

\* FheUint8::gt
gt(self, other, z) ==
    GateOutput(arbitrary_bit_comparator(ClearBits(self, z), ClearBits(other, z)), z)

\* FheUint8::le
le(self, other, z) ==
    not_inplace(GateOutput(arbitrary_bit_comparator(ClearBits(self, z), ClearBits(other, z)), z))

\* FheUint8::ge
ge(self, other, z) ==
    not_inplace(GateOutput(arbitrary_bit_comparator(ClearBits(other, z), ClearBits(self, z)), z))

-----------------------------------------------------------------------------
(* A client, or a group of parties, using FheUint8 *)

\* an FheUint8 holding 8, 7 or 9 bit ciphertexts
ShapedU8(c, shape) ==
    CASE shape = "ok" -> c
      [] shape = "short" -> SubSeq(c, 1, Len(c) - 1)
      [] shape = "long" -> Append(c, c[1])

InitU8 ==
    /\ \/ /\ u8_status = "client"
          /\ u8_sk \in [{1} -> TernaryWithHammingWeight(LweN, LweN \div 2)]
       \/ /\ u8_status = "parties"
          /\ u8_sk \in [Parties -> TernaryWithHammingWeight(LweN, LweN \div 2)]
    /\ u8_m = None
    /\ u8_c = None
    /\ u8_res = None
    /\ u8_shares = [i \in DOMAIN u8_sk |-> None]
    /\ u8_out = None
    /\ DecIdle
    /\ PkIdle
    /\ RlIdle
    /\ PbsIdle
    /\ CallIdle

\* the operands m0 and m1 are encrypted under the key with randomness r
EncryptU8(m0, m1, r) ==
    /\ u8_m' = <<m0, m1>>
    /\ u8_c' = << FheUint8Encrypt(m0, IdealSecret(u8_sk), r),
                  FheUint8Encrypt(m1, IdealSecret(u8_sk), r) >>
    /\ UNCHANGED <<u8_sk, u8_res, u8_shares, u8_out, u8_status>>
    /\ UNCHANGED <<decVars, pkVars, rlVars, pbsVars, callVars>>

\* a client encrypts two operands, or the parties' input is encrypted
EncryptOperandsU8 ==
    /\ u8_status \in {"client", "parties"}
    /\ u8_c = None
    /\ IF u8_status = "client"
       THEN \E m0 \in 0..255, m1 \in UOperands, r \in BoolRand : EncryptU8(m0, m1, r)
       ELSE \E m0 \in UMsgs, r \in BoolRand : EncryptU8(m0, 0, r)

\* the client decrypts an FheUint8 made of the bit ciphertexts of c0
DecryptU8(shape) ==
    /\ u8_status = "client"
    /\ u8_c # None /\ u8_res = None /\ u8_out = None
    /\ u8_out' = [entry |-> "decrypt", shape |-> shape,
                  res |-> << FheUint8Decrypt(ShapedU8(u8_c[1], shape), IdealSecret(u8_sk)) >>]
    /\ UNCHANGED <<u8_sk, u8_m, u8_c, u8_res, u8_shares, u8_status>>
    /\ UNCHANGED <<decVars, pkVars, rlVars, pbsVars, callVars>>

\* the server applies one operator to c0 and c1
ArithmeticU8(op) ==
    /\ u8_status = "client"
    /\ u8_c # None /\ u8_res = None /\ u8_out = None
    /\ LET z == IdealSecret(u8_sk)
       IN  u8_res' = [op |-> op,
                      data |-> CASE op = "add_assign" -> << add_assign(u8_c[1], u8_c[2], z) >>
                                 [] op = "sub" -> << sub(u8_c[1], u8_c[2], z) >>
                                 [] op = "mul" -> << mul(u8_c[1], u8_c[2], z) >>
                                 [] op = "div_rem" -> div_rem(u8_c[1], u8_c[2], z)]
    /\ UNCHANGED <<u8_sk, u8_m, u8_c, u8_shares, u8_out, u8_status>>
    /\ UNCHANGED <<decVars, pkVars, rlVars, pbsVars, callVars>>

\* the client decrypts the result of the operator
DecryptResultU8 ==
    /\ u8_status = "client"
    /\ u8_res # None /\ u8_out = None
    /\ u8_out' = [entry |-> "decrypt_result", shape |-> "ok",
                  res |-> [k \in 1..Len(u8_res.data) |->
                              FheUint8Decrypt(u8_res.data[k], IdealSecret(u8_sk))]]
    /\ UNCHANGED <<u8_sk, u8_m, u8_c, u8_res, u8_shares, u8_status>>
    /\ UNCHANGED <<decVars, pkVars, rlVars, pbsVars, callVars>>

\* party i generates its decryption share of an FheUint8 made of the bit
\* ciphertexts of c0
GenDecryptionShareU8(i, shape, e) ==
    /\ u8_status = "parties"
    /\ u8_c # None /\ u8_out = None
    /\ u8_shares[i] = None
    /\ LET share == FheUint8GenDecryptionShare(ShapedU8(u8_c[1], shape), u8_sk[i], e)
       IN  IF share = None
           THEN /\ u8_out' = [entry |-> "gen_decryption_share", shape |-> shape,
                              res |-> << Panic >>]
                /\ UNCHANGED u8_shares
           ELSE /\ u8_shares' = [u8_shares EXCEPT ![i] = [e |-> e, share |-> share]]
                /\ UNCHANGED u8_out
    /\ UNCHANGED <<u8_sk, u8_m, u8_c, u8_res, u8_status>>
    /\ UNCHANGED <<decVars, pkVars, rlVars, pbsVars, callVars>>

\* a party aggregates the shares of all parties with an FheUint8 made of the bit
\* ciphertexts of c0
AggregateDecryptionSharesU8(shape) ==
    /\ u8_status = "parties"
    /\ u8_c # None /\ u8_out = None
    /\ \A i \in Parties : u8_shares[i] # None
    /\ u8_out' = [entry |-> "aggregate_decryption_shares", shape |-> shape,
                  res |-> << FheUint8AggregateDecryptionShares(
                                 ShapedU8(u8_c[1], shape),
                                 [k \in Parties |-> u8_shares[k].share]) >>]
    /\ UNCHANGED <<u8_sk, u8_m, u8_c, u8_res, u8_shares, u8_status>>
    /\ UNCHANGED <<decVars, pkVars, rlVars, pbsVars, callVars>>

ComparisonOps == {"eq", "neq", "lt", "gt", "le", "ge"}

\* the server applies one comparison to c0 and c1
CompareU8(op) ==
    /\ u8_status = "client"
    /\ u8_c # None /\ u8_res = None /\ u8_out = None
    /\ LET z == IdealSecret(u8_sk)
       IN  u8_res' = [op |-> op,
                      data |-> CASE op = "eq" -> << eq(u8_c[1], u8_c[2], z) >>
                                 [] op = "neq" -> << neq(u8_c[1], u8_c[2], z) >>
                                 [] op = "lt" -> << lt(u8_c[1], u8_c[2], z) >>
                                 [] op = "gt" -> << gt(u8_c[1], u8_c[2], z) >>
                                 [] op = "le" -> << le(u8_c[1], u8_c[2], z) >>
                                 [] op = "ge" -> << ge(u8_c[1], u8_c[2], z) >>]
    /\ UNCHANGED <<u8_sk, u8_m, u8_c, u8_shares, u8_out, u8_status>>
    /\ UNCHANGED <<decVars, pkVars, rlVars, pbsVars, callVars>>

\* the client decrypts the FheBool a comparison returned
DecryptBoolU8 ==
    /\ u8_status = "client"
    /\ u8_res # None /\ u8_out = None
    /\ u8_res.op \in ComparisonOps
    /\ u8_out' = [entry |-> "decrypt_bool", shape |-> "ok",
                  res |-> << [status |-> "value",
                              value |-> BoolDecrypt(u8_res.data[1], IdealSecret(u8_sk))] >>]
    /\ UNCHANGED <<u8_sk, u8_m, u8_c, u8_res, u8_shares, u8_status>>
    /\ UNCHANGED <<decVars, pkVars, rlVars, pbsVars, callVars>>

NextU8Cmp ==
    \/ EncryptOperandsU8
    \/ \E op \in ComparisonOps : CompareU8(op)
    \/ DecryptBoolU8

SpecU8Cmp == InitU8 /\ [][NextU8Cmp]_vars

NextU8 ==
    \/ EncryptOperandsU8
    \/ \E shape \in LweShapes : DecryptU8(shape)
    \/ \E op \in {"add_assign", "sub", "mul", "div_rem"} : ArithmeticU8(op)
    \/ DecryptResultU8
    \/ \E i \in Parties, shape \in LweShapes, e \in BoolNoise :
           GenDecryptionShareU8(i, shape, e)
    \/ \E shape \in LweShapes : AggregateDecryptionSharesU8(shape)

SpecU8 == InitU8 /\ [][NextU8]_vars

-----------------------------------------------------------------------------
(* Programmable bootstrapping (pbs.rs) *)

\* the RLWE modulus Q, the LWE modulus Q_ks and the LWE dimension n
PbsRlweQ == 16
PbsLweQ == 8
PbsLweN == 2

\* the parameter sets: ring size N, bootstrap modulus q <= 2N, generator g, window w
PbsParams ==
    { par \in [rlwe_n : {2, 4, 8}, br_q : {4, 8, 16}, g : {3, 5}, w : {1, 2}] :
        /\ par.br_q \in {par.rlwe_n \div 2, par.rlwe_n, 2 * par.rlwe_n}
        /\ par.br_q < 16 => par.w = 1 }

\* the LWE ciphertexts pbs is called on: length N + 1, coordinates in [0, Q)
PbsLweIns(rlwe_n) ==
    { [j \in 1..(rlwe_n + 1) |-> 0],
      [j \in 1..(rlwe_n + 1) |-> PbsRlweQ - 1],
      [j \in 1..(rlwe_n + 1) |-> (5 * j) % PbsRlweQ] }

\* the test vector: a polynomial of the ring X^{q/2} + 1
TestVec(br_q) == [j \in 1..(br_q \div 2) |-> j]

\* PbsInfo::embedding_factor
EmbeddingFactor(par) == (2 * par.rlwe_n) \div par.br_q

\* PbsInfo::g_k_dlog_map: the entry of a is k when a = g^k and k + q/4 when
\* a = -g^k
GKDlogMap(par) ==
    LET q == par.br_q
        ks == 0..(q \div 4 - 1)
    IN  [a1 \in 1..q |->
            IF \E k \in ks : ModPow(q, par.g, k) = a1 - 1
            THEN CHOOSE k \in ks : ModPow(q, par.g, k) = a1 - 1
            ELSE IF \E k \in ks : ModNeg(q, ModPow(q, par.g, k)) = a1 - 1
            THEN (CHOOSE k \in ks : ModNeg(q, ModPow(q, par.g, k)) = a1 - 1) + q \div 4
            ELSE 0]

\* an automorphism element that is g^k for every k, k = 0 included
AutoElementPowerOnly(par, k) == ModPow(par.br_q, par.g, k)

\* the automorphism element of the auto key and auto map of index k: g^k mod q
\* for k > 0 and -g for k = 0
AutoElement(par, k) == IF k = 0 THEN -par.g ELSE ModPow(par.br_q, par.g, k)

\* the keys of PbsKey: an auto key for every k in 0..w, an RGSW ciphertext for
\* every LWE secret index
HasAutoKey(par, k) == k \in 0..par.w
HasRgswCt(si) == si \in 0..(PbsLweN - 1)

\* (v * to_q / from_q).round() on f64, for v >= 0
RoundDiv(v, to_q, from_q) == (2 * v * to_q + from_q) \div (2 * from_q)

\* M::MatElement::from_f64(x) is None, and unwrap fails, when x is not
\* representable in the unsigned element type
FromF64IsNone(x) == x < 0

\* a mod switch that keeps even values
ModSwitchFloor(v, from_q, to_q) == (v * to_q) \div from_q

\* a mod switch that rounds to the nearest integer before it makes the value odd
ModSwitchOddRounded(v, from_q, to_q) ==
    LET odd_v == RoundDiv(v, to_q, from_q)
    IN  odd_v + (1 - (odd_v % 2))

\* floor(v * to_q / from_q), plus one when that is even
mod_switch_odd(v, from_q, to_q) ==
    LET odd_v == (v * to_q) \div from_q
    IN  odd_v + (1 - (odd_v % 2))

\* the loop of pbs that sorts the LWE indices into the buckets g_k_si
RECURSIVE BucketFold(_, _, _, _, _)
BucketFold(par, scratch, g_k_dlog_map, index, g_k_si) ==
    IF index > Len(scratch) - 2 THEN [err |-> "none", g_k_si |-> g_k_si]
    ELSE LET odd_v == mod_switch_odd(scratch[index + 2], PbsLweQ, par.br_q)
         IN  IF odd_v >= Len(g_k_dlog_map) THEN [err |-> "index", g_k_si |-> g_k_si]
             ELSE LET k == g_k_dlog_map[odd_v + 1]
                  IN  IF k >= Len(g_k_si) THEN [err |-> "index", g_k_si |-> g_k_si]
                      ELSE BucketFold(par, scratch, g_k_dlog_map, index + 1,
                                      [g_k_si EXCEPT ![k + 1] = Append(@, index)])

\* a wrap around X^n that keeps the sign
ToSignNoFlip(wraps, mon_sign) == mon_sign

\* the sign of the coefficient written: flipped when the index wraps around
ToSign(wraps, mon_sign) == IF wraps THEN ~mon_sign ELSE mon_sign

\* the loop of monomial_mul over the coefficients of p_in; writes lists the
\* positions of p_out written so far
RECURSIVE MonomialMulFold(_, _, _, _, _, _, _)
MonomialMulFold(p_in, p_out, mon_exp, mon_sign, ring_size, index, writes) ==
    IF index >= Len(p_in) THEN [err |-> "none", p_out |-> p_out, writes |-> writes]
    ELSE LET wraps == index + mon_exp >= ring_size
             to_index == IF wraps THEN index + mon_exp - ring_size ELSE index + mon_exp
             to_sign == ToSign(wraps, mon_sign)
         IN  IF to_index >= Len(p_out)
             THEN [err |-> "index", p_out |-> p_out, writes |-> writes]
             ELSE MonomialMulFold(p_in,
                                  [p_out EXCEPT ![to_index + 1] =
                                      IF ~to_sign THEN ModNeg(PbsRlweQ, p_in[index + 1])
                                      ELSE p_in[index + 1]],
                                  mon_exp, mon_sign, ring_size, index + 1,
                                  Append(writes, to_index))

\* p_in(X) * X^{mon_exp} with the sign mon_sign, written to p_out
monomial_mul(p_in, p_out, mon_exp, mon_sign, ring_size) ==
    IF Len(p_in) # ring_size \/ Len(p_in) # Len(p_out) \/ ~(mon_exp < ring_size)
    THEN [err |-> "assertion", p_out |-> p_out, writes |-> <<>>]
    ELSE MonomialMulFold(p_in, p_out, mon_exp, mon_sign, ring_size, 0, <<>>)

\* an embedding that writes the coefficients of t next to each other
RECURSIVE EmbedFoldDense(_, _, _, _)
EmbedFoldDense(t_poly, partb, embed_factor, index) ==
    IF index >= Len(t_poly) THEN [err |-> "none", partb |-> partb]
    ELSE IF index >= Len(partb) THEN [err |-> "index", partb |-> partb]
    ELSE EmbedFoldDense(t_poly, [partb EXCEPT ![index + 1] = t_poly[index + 1]],
                        embed_factor, index + 1)

\* the loop of pbs that embeds t into part B of the trivial RLWE ciphertext
RECURSIVE EmbedFold(_, _, _, _)
EmbedFold(t_poly, partb, embed_factor, index) ==
    IF index >= Len(t_poly) THEN [err |-> "none", partb |-> partb]
    ELSE IF embed_factor * index >= Len(partb) THEN [err |-> "index", partb |-> partb]
    ELSE EmbedFold(t_poly, [partb EXCEPT ![embed_factor * index + 1] = t_poly[index + 1]],
                   embed_factor, index + 1)

\* a sample extract that copies the wrapped coefficients without negating them
SampleExtractWithoutNeg(lwe_out, rlwe_in, index) ==
    LET ring_size == Len(rlwe_in[1])
        from == rlwe_in[1]
    IN  IF ring_size + 1 # Len(lwe_out) THEN [err |-> "assertion", lwe_out |-> lwe_out]
        ELSE [err |-> "none",
              lwe_out |-> [j \in 1..(ring_size + 1) |->
                              IF j = 1 THEN rlwe_in[2][index + 1]
                              ELSE IF j - 2 <= index THEN from[index - (j - 2) + 1]
                              ELSE from[ring_size + index - (j - 2) + 1]]]

\* the LWE ciphertext of coefficient index of the RLWE ciphertext rlwe_in
sample_extract(lwe_out, rlwe_in, index) ==
    LET ring_size == Len(rlwe_in[1])
        from == rlwe_in[1]
    IN  IF ring_size + 1 # Len(lwe_out) THEN [err |-> "assertion", lwe_out |-> lwe_out]
        ELSE [err |-> "none",
              lwe_out |-> [j \in 1..(ring_size + 1) |->
                              IF j = 1 THEN rlwe_in[2][index + 1]
                              ELSE IF j - 2 <= index THEN from[index - (j - 2) + 1]
                              ELSE ModNeg(PbsRlweQ, from[ring_size + index - (j - 2) + 1])]]

\* blind_rotation reads bucket k of gk_to_si: the read is recorded in the trace
BucketRead(trace, k) == Append(trace, [op |-> "bucket", k |-> k])

\* the external products of blind_rotation with the RGSW ciphertexts of one bucket
\* external products that leave the flag is_trivial as it was
RECURSIVE ExternalProductsKeepFlag(_, _, _, _)
ExternalProductsKeepFlag(s_indices, j, trace, is_trivial) ==
    IF j > Len(s_indices) THEN [err |-> "none", trace |-> trace, is_trivial |-> is_trivial]
    ELSE IF ~HasRgswCt(s_indices[j])
    THEN [err |-> "index", trace |-> trace, is_trivial |-> is_trivial]
    ELSE ExternalProductsKeepFlag(s_indices, j + 1,
                                  Append(trace, [op |-> "rlwe_by_rgsw", si |-> s_indices[j],
                                                 is_trivial |-> is_trivial]),
                                  is_trivial)

RECURSIVE ExternalProducts(_, _, _, _)
ExternalProducts(s_indices, j, trace, is_trivial) ==
    IF j > Len(s_indices) THEN [err |-> "none", trace |-> trace, is_trivial |-> is_trivial]
    ELSE IF ~HasRgswCt(s_indices[j])
    THEN [err |-> "index", trace |-> trace, is_trivial |-> is_trivial]
    ELSE ExternalProducts(s_indices, j + 1,
                          Append(trace, [op |-> "rlwe_by_rgsw", si |-> s_indices[j],
                                         is_trivial |-> is_trivial]),
                          FALSE)

\* the automorphism of blind_rotation with the auto key and auto map of index k
Automorphism(par, k, trace, is_trivial) ==
    IF ~HasAutoKey(par, k) THEN [err |-> "index", trace |-> trace]
    ELSE [err |-> "none",
          trace |-> Append(trace, [op |-> "rlwe_auto", k |-> k, is_trivial |-> is_trivial])]

-----------------------------------------------------------------------------
(* One call of pbs, phase by phase *)

InitPbs ==
    /\ pbs_par \in PbsParams
    /\ pbs_pc = "mod_down"
    /\ pbs_lwe_in \in PbsLweIns(pbs_par.rlwe_n)
    /\ pbs_scratch = [j \in 1..(PbsLweN + 1) |-> 0]
    /\ pbs_g_k_si = <<>>
    /\ pbs_rlwe = <<>>
    /\ pbs_br = None
    /\ pbs_trace = <<>>
    /\ pbs_err = "none"
    /\ DecIdle
    /\ PkIdle
    /\ RlIdle
    /\ U8Idle
    /\ CallIdle

\* the call stops with a failure of the given kind
PbsFails(kind) ==
    /\ pbs_pc' = "failed"
    /\ pbs_err' = kind
    /\ UNCHANGED <<pbs_par, pbs_lwe_in, pbs_scratch, pbs_g_k_si, pbs_rlwe, pbs_br, pbs_trace>>

\* moddown Q -> Q_ks
ModDown ==
    /\ pbs_pc = "mod_down"
    /\ LET switched == [j \in 1..Len(pbs_lwe_in) |->
                           RoundDiv(pbs_lwe_in[j], PbsLweQ, PbsRlweQ)]
       IN  IF \E j \in 1..Len(switched) : FromF64IsNone(switched[j])
           THEN PbsFails("conversion")
           ELSE /\ pbs_lwe_in' = switched
                /\ pbs_pc' = "key_switch"
                /\ UNCHANGED <<pbs_par, pbs_scratch, pbs_g_k_si, pbs_rlwe, pbs_br,
                               pbs_trace, pbs_err>>
    /\ UNCHANGED <<decVars, pkVars, rlVars, u8Vars, callVars>>

\* key switch RLWE secret to LWE secret: lwe_key_switch fills scratch_lwe_vec
\* with an LWE ciphertext mod Q_ks
KeySwitch ==
    /\ pbs_pc = "key_switch"
    /\ pbs_scratch' \in SeqsOf(0..(PbsLweQ - 1), PbsLweN + 1)
    /\ pbs_pc' = "buckets"
    /\ UNCHANGED <<pbs_par, pbs_lwe_in, pbs_g_k_si, pbs_rlwe, pbs_br, pbs_trace, pbs_err>>
    /\ UNCHANGED <<decVars, pkVars, rlVars, u8Vars, callVars>>

\* odd moddown Q_ks -> q and the buckets g_k_si
Buckets ==
    /\ pbs_pc = "buckets"
    /\ LET r == BucketFold(pbs_par, pbs_scratch, GKDlogMap(pbs_par), 0,
                           [k \in 1..(pbs_par.br_q \div 2) |-> <<>>])
       IN  IF r.err # "none"
           THEN PbsFails(r.err)
           ELSE /\ pbs_g_k_si' = r.g_k_si
                /\ pbs_pc' = "test_poly"
                /\ UNCHANGED <<pbs_par, pbs_lwe_in, pbs_scratch, pbs_rlwe, pbs_br,
                               pbs_trace, pbs_err>>
    /\ UNCHANGED <<decVars, pkVars, rlVars, u8Vars, callVars>>

\* a reduction of X^{g*b} that forgets the sign
GbMonomialNoSignFlip(g_times_b, br_qby2) ==
    [exp |-> IF g_times_b > br_qby2 THEN g_times_b - br_qby2 ELSE g_times_b,
     sign |-> TRUE]

\* X^{g*b} mod X^{q/2}+1 as an exponent and a sign
GbMonomial(g_times_b, br_qby2) ==
    [exp |-> IF g_times_b > br_qby2 THEN g_times_b - br_qby2 ELSE g_times_b,
     sign |-> ~(g_times_b > br_qby2)]

\* handle b and set the trivial test RLWE; blind_rotation is entered
TestPoly ==
    /\ pbs_pc = "test_poly"
    /\ LET br_q == pbs_par.br_q
           rlwe_n == pbs_par.rlwe_n
           g_times_b == (pbs_par.g * mod_switch_odd(pbs_scratch[1], PbsLweQ, br_q)) % br_q
           br_qby2 == br_q \div 2
           gb_monomial_sign == GbMonomial(g_times_b, br_qby2).sign
           gb_monomial_exp == GbMonomial(g_times_b, br_qby2).exp
           zeros == [j \in 1..rlwe_n |-> 0]
           q_by_4 == br_q \div 4
           br0 == [phase |-> IF q_by_4 - 1 >= 1 THEN "neg" ELSE "neg0",
                   i |-> q_by_4 - 1, v |-> 0, is_trivial |-> TRUE]
       IN  IF EmbeddingFactor(pbs_par) = 1
           THEN LET r == monomial_mul(TestVec(br_q), zeros, gb_monomial_exp,
                                      gb_monomial_sign, br_qby2)
                IN  IF r.err # "none"
                    THEN PbsFails(r.err)
                    ELSE /\ pbs_rlwe' = <<zeros, r.p_out>>
                         /\ pbs_br' = br0
                         /\ pbs_pc' = "blind_rotation"
                         /\ UNCHANGED <<pbs_par, pbs_lwe_in, pbs_scratch, pbs_g_k_si,
                                        pbs_trace, pbs_err>>
           ELSE IF br_qby2 > Len(pbs_lwe_in)
           THEN PbsFails("index")
           ELSE LET r == monomial_mul(TestVec(br_q), SubSeq(pbs_lwe_in, 1, br_qby2),
                                      gb_monomial_exp, gb_monomial_sign, br_qby2)
                    e == EmbedFold(r.p_out, zeros, EmbeddingFactor(pbs_par), 0)
                IN  IF r.err # "none"
                    THEN PbsFails(r.err)
                    ELSE IF e.err # "none"
                    THEN PbsFails(e.err)
                    ELSE /\ pbs_lwe_in' = r.p_out \o
                                           SubSeq(pbs_lwe_in, br_qby2 + 1, Len(pbs_lwe_in))
                         /\ pbs_rlwe' = <<zeros, e.partb>>
                         /\ pbs_br' = br0
                         /\ pbs_pc' = "blind_rotation"
                         /\ UNCHANGED <<pbs_par, pbs_scratch, pbs_g_k_si, pbs_trace, pbs_err>>
    /\ UNCHANGED <<decVars, pkVars, rlVars, u8Vars, callVars>>

\* the two half-loops exchanged: the buckets of +(g^k) first
HalfBasePositiveFirst(phase, q_by_4) == IF phase = "neg" THEN 0 ELSE q_by_4

\* the first bucket index of a half: q/4 for the buckets of -(g^k), 0 for those of
\* +(g^k)
HalfBase(phase, q_by_4) == IF phase = "neg" THEN q_by_4 ELSE 0

\* a control flow that leaves out the block of -(g^0)
PhaseAfterHalfSkipsNegG0(phase) == "pos0"

\* what follows a half-loop: the block of -(g^0) after the loop of -(g^k), the
\* bucket of +(g^0) after the loop of +(g^k)
PhaseAfterHalf(phase) == IF phase = "neg" THEN "neg0" ELSE "pos0"

\* a window counter that is not reset after an automorphism
CounterNeverReset(auto, v) == v

\* the window counter at the end of an iteration: 0 after an automorphism
CounterAfter(auto, v) == IF auto THEN 0 ELSE v

\* a trigger that forgets the last iteration of the half-loop
AutoTriggerWithoutLast(next_len, v, w, i) == next_len # 0 \/ v = w

\* a trigger that forgets the window
AutoTriggerWithoutWindow(next_len, v, w, i) == next_len # 0 \/ i = 1

\* a trigger that fires in every iteration
AutoTriggerAlways(next_len, v, w, i) == TRUE

\* the condition of a half-loop under which the automorphism of index v is applied
\* after the external products of bucket i: the next lower bucket is not empty,
\* the window is full, or the half-loop ends
AutoTrigger(next_len, v, w, i) == next_len # 0 \/ v = w \/ i = 1

\* one iteration of the loop over i of a half of blind_rotation: the buckets of
\* -(g^k) when the phase is "neg", of +(g^k) when it is "pos"
BlindRotationHalf ==
    /\ pbs_pc = "blind_rotation"
    /\ pbs_br.phase \in {"neg", "pos"}
    /\ LET q_by_4 == pbs_par.br_q \div 4
           base == HalfBase(pbs_br.phase, q_by_4)
           i == pbs_br.i
       IN  IF base + i >= Len(pbs_g_k_si)
           THEN PbsFails("index")
           ELSE LET ep == ExternalProducts(pbs_g_k_si[base + i + 1], 1,
                                           BucketRead(pbs_trace, base + i),
                                           pbs_br.is_trivial)
                    v == pbs_br.v + 1
                    auto == AutoTrigger(Len(pbs_g_k_si[base + i]), v, pbs_par.w, i)
                    au == Automorphism(pbs_par, v, ep.trace, ep.is_trivial)
                IN  IF ep.err # "none"
                    THEN PbsFails(ep.err)
                    ELSE IF auto /\ au.err # "none"
                    THEN PbsFails(au.err)
                    ELSE /\ pbs_trace' = IF auto THEN au.trace ELSE ep.trace
                         /\ pbs_br' = [phase |-> IF i > 1 THEN pbs_br.phase
                                                 ELSE PhaseAfterHalf(pbs_br.phase),
                                       i |-> i - 1,
                                       v |-> CounterAfter(auto, v),
                                       is_trivial |-> ep.is_trivial]
                         /\ UNCHANGED <<pbs_par, pbs_pc, pbs_lwe_in, pbs_scratch, pbs_g_k_si,
                                        pbs_rlwe, pbs_err>>
    /\ UNCHANGED <<decVars, pkVars, rlVars, u8Vars, callVars>>

\* the bucket of -(g^0) and the automorphism of index 0
BlindRotationNegG0 ==
    /\ pbs_pc = "blind_rotation"
    /\ pbs_br.phase = "neg0"
    /\ LET q_by_4 == pbs_par.br_q \div 4
       IN  IF q_by_4 >= Len(pbs_g_k_si)
           THEN PbsFails("index")
           ELSE LET ep == ExternalProducts(pbs_g_k_si[q_by_4 + 1], 1,
                                           BucketRead(pbs_trace, q_by_4),
                                           pbs_br.is_trivial)
                    au == Automorphism(pbs_par, 0, ep.trace, ep.is_trivial)
                IN  IF ep.err # "none"
                    THEN PbsFails(ep.err)
                    ELSE IF au.err # "none"
                    THEN PbsFails(au.err)
                    ELSE /\ pbs_trace' = au.trace
                         /\ pbs_br' = [phase |-> IF q_by_4 - 1 >= 1 THEN "pos" ELSE "pos0",
                                       i |-> q_by_4 - 1, v |-> 0,
                                       is_trivial |-> ep.is_trivial]
                         /\ UNCHANGED <<pbs_par, pbs_pc, pbs_lwe_in, pbs_scratch, pbs_g_k_si,
                                        pbs_rlwe, pbs_err>>
    /\ UNCHANGED <<decVars, pkVars, rlVars, u8Vars, callVars>>

\* the bucket of +(g^0); blind_rotation returns
BlindRotationPosG0 ==
    /\ pbs_pc = "blind_rotation"
    /\ pbs_br.phase = "pos0"
    /\ IF Len(pbs_g_k_si) = 0
       THEN PbsFails("index")
       ELSE LET ep == ExternalProducts(pbs_g_k_si[1], 1, BucketRead(pbs_trace, 0),
                                       pbs_br.is_trivial)
            IN  IF ep.err # "none"
                THEN PbsFails(ep.err)
                ELSE /\ pbs_trace' = ep.trace
                     /\ pbs_br' = [pbs_br EXCEPT !.phase = "done",
                                                 !.is_trivial = ep.is_trivial]
                     /\ pbs_pc' = "sample_extract"
                     /\ UNCHANGED <<pbs_par, pbs_lwe_in, pbs_scratch, pbs_g_k_si, pbs_rlwe,
                                    pbs_err>>
    /\ UNCHANGED <<decVars, pkVars, rlVars, u8Vars, callVars>>

\* sample extract of coefficient 0 into lwe_in; pbs returns
SampleExtract ==
    /\ pbs_pc = "sample_extract"
    /\ LET r == sample_extract(pbs_lwe_in, pbs_rlwe, 0)
       IN  IF r.err # "none"
           THEN PbsFails(r.err)
           ELSE /\ pbs_lwe_in' = r.lwe_out
                /\ pbs_pc' = "done"
                /\ UNCHANGED <<pbs_par, pbs_scratch, pbs_g_k_si, pbs_rlwe, pbs_br,
                               pbs_trace, pbs_err>>
    /\ UNCHANGED <<decVars, pkVars, rlVars, u8Vars, callVars>>

\* the parameter sets blind_rotation is run with on its own: q, g and a window w
\* below, at and above q/4 - 1
BrParams ==
    { par \in [rlwe_n : {2, 4, 8}, br_q : {4, 8, 16}, g : {3, 5}, w : 1..4] :
        par.br_q = 2 * par.rlwe_n }

\* blind_rotation is entered with the buckets of any key-switched ciphertext
InitBr ==
    /\ pbs_par \in BrParams
    /\ pbs_pc = "blind_rotation"
    /\ pbs_lwe_in = [j \in 1..(pbs_par.rlwe_n + 1) |-> 0]
    /\ pbs_scratch \in { s \in SeqsOf(0..(PbsLweQ - 1), PbsLweN + 1) : s[1] = 0 }
    /\ pbs_g_k_si = BucketFold(pbs_par, pbs_scratch, GKDlogMap(pbs_par), 0,
                               [k \in 1..(pbs_par.br_q \div 2) |-> <<>>]).g_k_si
    /\ pbs_rlwe = << [j \in 1..pbs_par.rlwe_n |-> 0],
                     monomial_mul(TestVec(pbs_par.br_q), [j \in 1..pbs_par.rlwe_n |-> 0],
                                  pbs_par.g % (pbs_par.br_q \div 2), TRUE,
                                  pbs_par.br_q \div 2).p_out >>
    /\ pbs_br = [phase |-> IF pbs_par.br_q \div 4 - 1 >= 1 THEN "neg" ELSE "neg0",
                 i |-> pbs_par.br_q \div 4 - 1, v |-> 0, is_trivial |-> TRUE]
    /\ pbs_trace = <<>>
    /\ pbs_err = "none"
    /\ DecIdle
    /\ PkIdle
    /\ RlIdle
    /\ U8Idle
    /\ CallIdle

NextBr ==
    \/ BlindRotationHalf
    \/ BlindRotationNegG0
    \/ BlindRotationPosG0

SpecBr == InitBr /\ [][NextBr]_vars

\* blind_rotation is a sequential function: it keeps running until it returns
SpecBrFair == SpecBr /\ WF_vars(NextBr)

-----------------------------------------------------------------------------
(* Calls of single functions of pbs.rs *)

\* the polynomials monomial_mul is called on, of the ring sizes 2, 3 and 4
MonomialInputs ==
    { <<1, 2>>, <<0, 15>>, <<1, 2, 3>>, <<8, 0, 15>>,
      <<1, 2, 3, 4>>, <<0, 0, 0, 0>>, <<15, 8, 0, 1>>, <<5, 5, 5, 5>> }

\* what p_out holds before the call: zeros, or what an earlier use left there
PreviousContents(n) == { [j \in 1..n |-> 0], [j \in 1..n |-> 7], [j \in 1..n |-> j + 8] }

InitMonomialMul ==
    /\ \E p_in \in MonomialInputs :
          call_args \in [fn : {"monomial_mul"}, p_in : {p_in},
                         p_out : PreviousContents(Len(p_in)),
                         mon_exp : 0..(Len(p_in) - 1), mon_sign : BOOLEAN,
                         ring_size : {Len(p_in)}]
    /\ call_ret = None
    /\ DecIdle
    /\ PkIdle
    /\ RlIdle
    /\ U8Idle
    /\ PbsIdle

\* the call of monomial_mul: p_out is written, p_in is only read
CallMonomialMul ==
    /\ call_args # None /\ call_args.fn = "monomial_mul"
    /\ call_ret = None
    /\ LET r == monomial_mul(call_args.p_in, call_args.p_out, call_args.mon_exp,
                             call_args.mon_sign, call_args.ring_size)
       IN  call_ret' = [err |-> r.err, p_in |-> call_args.p_in, p_out |-> r.p_out,
                        writes |-> r.writes]
    /\ UNCHANGED call_args
    /\ UNCHANGED <<decVars, pkVars, rlVars, u8Vars, pbsVars>>

NextMonomialMul == CallMonomialMul

SpecMonomialMul == InitMonomialMul /\ [][NextMonomialMul]_vars

\* the RLWE ciphertexts sample_extract is called on: rows part A and part B, of
\* the ring sizes 2, 3 and 4
SampleExtractInputs ==
    { << <<1, 2>>, <<3, 4>> >>, << <<0, 15>>, <<8, 0>> >>,
      << <<1, 2, 3>>, <<4, 5, 6>> >>, << <<15, 0, 7>>, <<0, 9, 1>> >>,
      << <<1, 2, 3, 4>>, <<5, 6, 7, 8>> >>, << <<15, 0, 8, 3>>, <<0, 0, 11, 2>> >>,
      << <<0, 0, 0, 1>>, <<9, 9, 9, 9>> >>, << <<7, 7, 7, 7>>, <<1, 0, 0, 0>> >> }

InitSampleExtract ==
    /\ \E rlwe_in \in SampleExtractInputs :
          \E len \in (Len(rlwe_in[1]))..(Len(rlwe_in[1]) + 2) :
              call_args \in [fn : {"sample_extract"}, rlwe_in : {rlwe_in},
                             lwe_out : {[j \in 1..len |-> 0], [j \in 1..len |-> j]},
                             index : 0..(Len(rlwe_in[1]) - 1)]
    /\ call_ret = None
    /\ DecIdle
    /\ PkIdle
    /\ RlIdle
    /\ U8Idle
    /\ PbsIdle

\* the call of sample_extract: lwe_out is written, rlwe_in is only read
CallSampleExtract ==
    /\ call_args # None /\ call_args.fn = "sample_extract"
    /\ call_ret = None
    /\ LET r == sample_extract(call_args.lwe_out, call_args.rlwe_in, call_args.index)
       IN  call_ret' = [err |-> r.err, lwe_out |-> r.lwe_out,
                        rlwe_in |-> call_args.rlwe_in]
    /\ UNCHANGED call_args
    /\ UNCHANGED <<decVars, pkVars, rlVars, u8Vars, pbsVars>>

NextSampleExtract == CallSampleExtract

SpecSampleExtract == InitSampleExtract /\ [][NextSampleExtract]_vars

-----------------------------------------------------------------------------
(* Calls of single functions of rgsw/keygen.rs *)

\* the index and sign maps of the automorphism X -> X^k, for the k' the code
\* has reduced k to
AutoMapOf(ring_size, k) ==
    LET to_index == [i \in 0..(ring_size - 1) |-> (i * k) % (2 * ring_size)]
    IN  [err |-> "none",
         auto_map_index |-> [i1 \in 1..ring_size |->
                                IF to_index[i1 - 1] >= ring_size
                                THEN to_index[i1 - 1] - ring_size
                                ELSE to_index[i1 - 1]],
         auto_sign_index |-> [i1 \in 1..ring_size |-> ~(to_index[i1 - 1] >= ring_size)]]

\* an auto map that takes |k| for a negative k
GenerateAutoMapOfAbs(ring_size, k) ==
    IF k % 2 # 1
    THEN [err |-> "assertion", auto_map_index |-> <<>>, auto_sign_index |-> <<>>]
    ELSE AutoMapOf(ring_size, IF k < 0 THEN -k ELSE k)

\* generate_auto_map: k & 1 == 1 holds of the odd k, negative ones included
generate_auto_map(ring_size, k) ==
    IF k % 2 # 1
    THEN [err |-> "assertion", auto_map_index |-> <<>>, auto_sign_index |-> <<>>]
    ELSE AutoMapOf(ring_size,
                   IF k < 0 THEN (2 * ring_size) - ((-k) % (2 * ring_size)) ELSE k)

\* the ring of the key generation calls: ring size N, an NTT-friendly prime Q
\* (2N divides Q - 1) and a primitive 2N-th root of unity psi
KgRing == [n |-> 4, q |-> 17, psi |-> 2]

\* Ntt::forward of the NTT operator of a ring: the negacyclic NTT
RingNttForward(ring, p) ==
    [j \in 1..ring.n |->
        LET term == [i \in 0..(ring.n - 1) |->
                        p[i + 1] * ModPow(ring.q, ring.psi,
                                          ((2 * (j - 1) + 1) * i) % (2 * ring.n))]
        IN  SumOver(term, 0, ring.n - 1) % ring.q]

\* Ntt::backward of the NTT operator of a ring
RingNttBackward(ring, h) ==
    [i \in 1..ring.n |->
        LET psi_inv == ModInv(ring.q, ring.psi)
            term == [j \in 0..(ring.n - 1) |->
                        h[j + 1] * ModPow(ring.q, psi_inv,
                                          ((2 * j + 1) * (i - 1)) % (2 * ring.n))]
        IN  (ModInv(ring.q, ring.n % ring.q) * SumOver(term, 0, ring.n - 1)) % ring.q]

\* the product of two polynomials the way the library computes it: forward
\* transforms, element-wise product, backward transform
RingNttMul(ring, a, b_eval) ==
    RingNttBackward(ring, ElwiseMul(ring.q, RingNttForward(ring, a), b_eval))

\* d polynomials drawn from p_rng, one random_fill each
RECURSIVE PRngFillRows(_, _, _)
PRngFillRows(p_rng, d, rows) ==
    IF d = 0 THEN [a |-> rows, p_rng |-> p_rng]
    ELSE LET drawn == PRngFill(p_rng)
         IN  PRngFillRows(drawn.p_rng, d - 1, Append(rows, drawn.a))

\* seeded_rlwe_ksk_gen: the rows b_i = e_i + a_i * to_s + beta_i * neg_from_s of the
\* key switching key; ksk_rows is the number of rows of ksk_out
seeded_rlwe_ksk_gen(ring, ksk_rows, neg_from_s, to_s, gadget_vector, p_rng, e) ==
    LET d == Len(gadget_vector)
    IN  IF ksk_rows # d
        THEN [err |-> "assertion", ksk_out |-> <<>>, a |-> <<>>, p_rng |-> p_rng]
        ELSE LET to_s_eval == RingNttForward(ring, to_s)
                 part_a == PRngFillRows(p_rng, d, <<>>)
             IN  [err |-> "none",
                  ksk_out |-> [i \in 1..d |->
                      ElwiseAdd(ring.q,
                          ElwiseAdd(ring.q, e[i], RingNttMul(ring, part_a.a[i], to_s_eval)),
                          ElwiseScalarMul(ring.q, neg_from_s, gadget_vector[i]))],
                  a |-> part_a.a,
                  p_rng |-> part_a.p_rng]

\* an s(X) -> s(X^k) that follows the signs of the auto map as they are
RECURSIVE NegSAutoFoldNotNegated(_, _, _, _, _, _)
NegSAutoFoldNotNegated(q, s, auto_map_index, auto_map_sign, i, neg_s_auto) ==
    IF i > Len(s) THEN neg_s_auto
    ELSE NegSAutoFoldNotNegated(q, s, auto_map_index, auto_map_sign, i + 1,
                                [neg_s_auto EXCEPT ![auto_map_index[i] + 1] =
                                    IF auto_map_sign[i] THEN s[i] ELSE ModNeg(q, s[i])])

\* s(X) -> -s(X^k): the loop of seeded_auto_key_gen over the auto map
RECURSIVE NegSAutoFold(_, _, _, _, _, _)
NegSAutoFold(q, s, auto_map_index, auto_map_sign, i, neg_s_auto) ==
    IF i > Len(s) THEN neg_s_auto
    ELSE NegSAutoFold(q, s, auto_map_index, auto_map_sign, i + 1,
                      [neg_s_auto EXCEPT ![auto_map_index[i] + 1] =
                          IF auto_map_sign[i] THEN ModNeg(q, s[i]) ELSE s[i]])

\* seeded_auto_key_gen: the key switching key from -s(X^k) to s(X)
seeded_auto_key_gen(ring, ksk_rows, s, auto_k, gadget_vector, p_rng, e) ==
    LET map == generate_auto_map(Len(s), auto_k)
    IN  IF map.err # "none"
        THEN [err |-> map.err, ksk_out |-> <<>>, a |-> <<>>, p_rng |-> p_rng,
              neg_s_auto |-> <<>>]
        ELSE LET s_q == TryConvertFrom(ring.q, s)
                 neg_s_auto == NegSAutoFold(ring.q, s_q, map.auto_map_index,
                                            map.auto_sign_index, 1,
                                            [j \in 1..Len(s) |-> 0])
                 ksk == seeded_rlwe_ksk_gen(ring, ksk_rows, neg_s_auto, s_q,
                                            gadget_vector, p_rng, e)
             IN  [err |-> ksk.err, ksk_out |-> ksk.ksk_out, a |-> ksk.a,
                  p_rng |-> ksk.p_rng, neg_s_auto |-> neg_s_auto]

\* the inputs of the key generation calls: the secrets, the gadget vector
\* (1, beta), the output streams of the seeded p_rng and the polynomials of the
\* Gaussian rng
KgSecrets == TernaryWithHammingWeight(KgRing.n, KgRing.n \div 2)
KgGadget == <<1, 4>>
KgPRngs ==
    { << <<1, 2, 3, 4>>, <<16, 0, 5, 9>>, <<7, 7, 0, 1>>, <<2, 0, 0, 0>> >>,
      << <<0, 1, 0, 0>>, <<3, 3, 3, 3>>, <<0, 0, 0, 0>>, <<11, 6, 1, 13>> >> }
KgNoisePolys == { <<0, 0, 0, 0>>, <<1, 0, 16, 0>> }
KgNoise(d) == { [i \in 1..d |-> e] : e \in KgNoisePolys } \cup { [i \in 1..d |-> <<0, 16, 0, i>>] }
KgAutoKs == {3, 5, 7, -1, -5}

InitSeededAutoKeyGen ==
    /\ call_args \in [fn : {"seeded_auto_key_gen"}, s : KgSecrets, auto_k : KgAutoKs,
                       gadget_vector : {KgGadget}, p_rng : KgPRngs,
                       e : KgNoise(Len(KgGadget)), ksk_rows : {Len(KgGadget)}]
    /\ call_ret = None
    /\ DecIdle
    /\ PkIdle
    /\ RlIdle
    /\ U8Idle
    /\ PbsIdle

CallSeededAutoKeyGen ==
    /\ call_args # None /\ call_args.fn = "seeded_auto_key_gen"
    /\ call_ret = None
    /\ call_ret' = seeded_auto_key_gen(KgRing, call_args.ksk_rows, call_args.s,
                                       call_args.auto_k, call_args.gadget_vector,
                                       call_args.p_rng, call_args.e)
    /\ UNCHANGED call_args
    /\ UNCHANGED <<decVars, pkVars, rlVars, u8Vars, pbsVars>>

NextSeededAutoKeyGen == CallSeededAutoKeyGen

SpecSeededAutoKeyGen == InitSeededAutoKeyGen /\ [][NextSeededAutoKeyGen]_vars

\* the rows of secret_key_encrypt_rgsw, with the message term of RLWE'(-sm) added
\* to part B in place of part A
SecretKeyEncryptRgswMessageInPartB(ring, out_rows, m, gadget_a, gadget_b, s, p_rng, rnd) ==
    LET d_a == Len(gadget_a)
        d_b == Len(gadget_b)
    IN  IF out_rows # d_a * 2 + d_b \/ Len(m) # Len(s)
        THEN [err |-> "assertion", out_rgsw |-> <<>>, a |-> <<>>, p_rng |-> p_rng]
        ELSE LET s_eval == RingNttForward(ring, TryConvertFrom(ring.q, s))
                 a_rlwe_dash_m == PRngFillRows(p_rng, d_b, <<>>)
             IN  [err |-> "none",
                  out_rgsw |->
                      [i \in 1..d_a |-> rnd.a[i]]
                      \o [i \in 1..d_a |->
                             ElwiseAdd(ring.q,
                                 ElwiseAdd(ring.q, rnd.e_nsm[i],
                                           RingNttMul(ring, rnd.a[i], s_eval)),
                                 ElwiseScalarMul(ring.q, m, gadget_a[i]))]
                      \o [i \in 1..d_b |->
                             ElwiseAdd(ring.q,
                                 ElwiseAdd(ring.q, rnd.e_m[i],
                                           ElwiseScalarMul(ring.q, m, gadget_b[i])),
                                 RingNttMul(ring, a_rlwe_dash_m.a[i], s_eval))],
                  a |-> a_rlwe_dash_m.a,
                  p_rng |-> a_rlwe_dash_m.p_rng]

\* secret_key_encrypt_rgsw: the rows RLWE'_A(-sm), RLWE'_B(-sm), RLWE'_B(m); rnd
\* holds what rng returns: the a_i and e_i of RLWE'(-sm) and the e_i of RLWE'(m);
\* part A of RLWE'(m) is drawn from p_rng
secret_key_encrypt_rgsw(ring, out_rows, m, gadget_a, gadget_b, s, p_rng, rnd) ==
    LET d_a == Len(gadget_a)
        d_b == Len(gadget_b)
    IN  IF out_rows # d_a * 2 + d_b \/ Len(m) # Len(s)
        THEN [err |-> "assertion", out_rgsw |-> <<>>, a |-> <<>>, p_rng |-> p_rng]
        ELSE LET s_eval == RingNttForward(ring, TryConvertFrom(ring.q, s))
                 a_rlwe_dash_m == PRngFillRows(p_rng, d_b, <<>>)
             IN  [err |-> "none",
                  out_rgsw |->
                      [i \in 1..d_a |->
                          ElwiseAdd(ring.q, rnd.a[i],
                                    ElwiseScalarMul(ring.q, m, gadget_a[i]))]
                      \o [i \in 1..d_a |->
                             ElwiseAdd(ring.q, rnd.e_nsm[i],
                                       RingNttMul(ring, rnd.a[i], s_eval))]
                      \o [i \in 1..d_b |->
                             ElwiseAdd(ring.q,
                                 ElwiseAdd(ring.q, rnd.e_m[i],
                                           ElwiseScalarMul(ring.q, m, gadget_b[i])),
                                 RingNttMul(ring, a_rlwe_dash_m.a[i], s_eval))],
                  a |-> a_rlwe_dash_m.a,
                  p_rng |-> a_rlwe_dash_m.p_rng]

\* p0 * u and p1 * u for the ephemeral secret u
PkTimesU(ring, public_key, u) ==
    LET u_eval == RingNttForward(ring, TryConvertFrom(ring.q, u))
    IN  << RingNttBackward(ring, ElwiseMul(ring.q, u_eval,
                                           RingNttForward(ring, public_key[1]))),
           RingNttBackward(ring, ElwiseMul(ring.q, u_eval,
                                           RingNttForward(ring, public_key[2]))) >>

\* public_key_encrypt_rgsw: the rows RLWE'_A(-sm), RLWE'_B(-sm), RLWE'_A(m),
\* RLWE'_B(m); rnd holds what rng returns: the ephemeral secrets u and the rows e0
\* and e1 of each RLWE ciphertext
public_key_encrypt_rgsw(ring, out_rows, m, public_key, gadget_a, gadget_b, rnd) ==
    LET d_a == Len(gadget_a)
        d_b == Len(gadget_b)
    IN  IF Len(public_key) # 2 \/ out_rows # d_a * 2 + d_b * 2
        THEN [err |-> "assertion", out_rgsw |-> <<>>]
        ELSE [err |-> "none",
              out_rgsw |->
                  [i \in 1..d_a |->
                      ElwiseAdd(ring.q,
                          ElwiseAdd(ring.q, rnd.e0_nsm[i],
                                    PkTimesU(ring, public_key, rnd.u_nsm[i])[1]),
                          ElwiseScalarMul(ring.q, m, gadget_a[i]))]
                  \o [i \in 1..d_a |->
                         ElwiseAdd(ring.q, rnd.e1_nsm[i],
                                   PkTimesU(ring, public_key, rnd.u_nsm[i])[2])]
                  \o [i \in 1..d_b |->
                         ElwiseAdd(ring.q, rnd.e0_m[i],
                                   PkTimesU(ring, public_key, rnd.u_m[i])[1])]
                  \o [i \in 1..d_b |->
                         ElwiseAdd(ring.q,
                             ElwiseAdd(ring.q, rnd.e1_m[i],
                                       PkTimesU(ring, public_key, rnd.u_m[i])[2]),
                             ElwiseScalarMul(ring.q, m, gadget_b[i]))]]

\* the public key (a, a * s + e) that rlwe_public_key makes for the secret s
KgPublicKey(ring, s, a, e) ==
    << a, ElwiseAdd(ring.q, e,
                    RingNttMul(ring, a, RingNttForward(ring, TryConvertFrom(ring.q, s)))) >>

\* the gadget vectors of the RGSW calls, the messages, and what rng returns
RgswGadgetA == <<1, 4>>
RgswGadgetB == <<1, 4, 16>>
RgswMessages == { <<0, 1, 0, 0>>, <<3, 0, 16, 5>> }
RgswRowCounts == {2 * Len(RgswGadgetA) + Len(RgswGadgetB),
                  2 * Len(RgswGadgetA) + 2 * Len(RgswGadgetB)}
RgswSecretKeyRnd ==
    { [a |-> [i \in 1..Len(RgswGadgetA) |-> <<i, 2, 0, 16>>],
       e_nsm |-> [i \in 1..Len(RgswGadgetA) |-> e],
       e_m |-> [i \in 1..Len(RgswGadgetB) |-> e]] : e \in KgNoisePolys }
RgswPublicKeyRnd ==
    { [u_nsm |-> [i \in 1..Len(RgswGadgetA) |-> u],
       e0_nsm |-> [i \in 1..Len(RgswGadgetA) |-> e],
       e1_nsm |-> [i \in 1..Len(RgswGadgetA) |-> <<0, 0, 0, 0>>],
       u_m |-> [i \in 1..Len(RgswGadgetB) |-> <<0, -1, 1, 0>>],
       e0_m |-> [i \in 1..Len(RgswGadgetB) |-> <<0, 0, 0, 0>>],
       e1_m |-> [i \in 1..Len(RgswGadgetB) |-> e]] :
        u \in {<<1, 0, 0, -1>>, <<0, 1, 1, 0>>}, e \in KgNoisePolys }

InitRgsw ==
    /\ \/ call_args \in [fn : {"secret_key_encrypt_rgsw"}, out_rows : RgswRowCounts,
                          m : RgswMessages, gadget_a : {RgswGadgetA},
                          gadget_b : {RgswGadgetB}, s : KgSecrets, p_rng : KgPRngs,
                          rnd : RgswSecretKeyRnd]
       \/ \E s \in KgSecrets : \E e \in KgNoisePolys :
             call_args \in [fn : {"public_key_encrypt_rgsw"}, out_rows : RgswRowCounts,
                            m : RgswMessages, gadget_a : {RgswGadgetA},
                            gadget_b : {RgswGadgetB}, s : {s}, e_pk : {e},
                            public_key : {KgPublicKey(KgRing, s, <<1, 2, 3, 4>>, e)},
                            rnd : RgswPublicKeyRnd]
    /\ call_ret = None
    /\ DecIdle
    /\ PkIdle
    /\ RlIdle
    /\ U8Idle
    /\ PbsIdle

CallSecretKeyEncryptRgsw ==
    /\ call_args # None /\ call_args.fn = "secret_key_encrypt_rgsw"
    /\ call_ret = None
    /\ call_ret' = secret_key_encrypt_rgsw(KgRing, call_args.out_rows, call_args.m,
                                           call_args.gadget_a, call_args.gadget_b,
                                           call_args.s, call_args.p_rng, call_args.rnd)
    /\ UNCHANGED call_args
    /\ UNCHANGED <<decVars, pkVars, rlVars, u8Vars, pbsVars>>

CallPublicKeyEncryptRgsw ==
    /\ call_args # None /\ call_args.fn = "public_key_encrypt_rgsw"
    /\ call_ret = None
    /\ call_ret' = public_key_encrypt_rgsw(KgRing, call_args.out_rows, call_args.m,
                                           call_args.public_key, call_args.gadget_a,
                                           call_args.gadget_b, call_args.rnd)
    /\ UNCHANGED call_args
    /\ UNCHANGED <<decVars, pkVars, rlVars, u8Vars, pbsVars>>

NextRgsw ==
    \/ CallSecretKeyEncryptRgsw
    \/ CallPublicKeyEncryptRgsw

SpecRgsw == InitRgsw /\ [][NextRgsw]_vars

\* a non_interactive_rgsw_ct with its two generators exchanged: a_i from rng, the
\* errors e from p_rng
NonInteractiveRgswCtRngsSwapped(ring, s, u, m, gadget_vec, p_rng, rnd) ==
    IF Len(s) # Len(u) \/ Len(s) # Len(m)
    THEN [err |-> "assertion", enc_beta_m |-> <<>>, zero_encryptions |-> <<>>,
          a |-> <<>>, p_rng |-> p_rng]
    ELSE LET d == Len(gadget_vec)
             s_poly_eval == RingNttForward(ring, TryConvertFrom(ring.q, s))
             u_poly_eval == RingNttForward(ring, TryConvertFrom(ring.q, u))
             drawn == PRngFillRows(p_rng, d, <<>>)
         IN  [err |-> "none",
              enc_beta_m |-> [i \in 1..d |->
                  ElwiseAdd(ring.q,
                      ElwiseAdd(ring.q, RingNttMul(ring, rnd.e[i], u_poly_eval), drawn.a[i]),
                      ElwiseScalarMul(ring.q, m, gadget_vec[i]))],
              zero_encryptions |-> [i \in 1..d |->
                  ElwiseAdd(ring.q, RingNttMul(ring, rnd.e[i], s_poly_eval),
                            rnd.e_zero[i])],
              a |-> [i \in 1..d |-> rnd.e[i]],
              p_rng |-> drawn.p_rng]

\* non_interactive_rgsw_ct: per gadget row one a_i from p_rng, then a_i * u + e +
\* beta * m and a_i * s + e'; rnd holds the two errors rng returns for each row
non_interactive_rgsw_ct(ring, s, u, m, gadget_vec, p_rng, rnd) ==
    IF Len(s) # Len(u) \/ Len(s) # Len(m)
    THEN [err |-> "assertion", enc_beta_m |-> <<>>, zero_encryptions |-> <<>>,
          a |-> <<>>, p_rng |-> p_rng]
    ELSE LET d == Len(gadget_vec)
             s_poly_eval == RingNttForward(ring, TryConvertFrom(ring.q, s))
             u_poly_eval == RingNttForward(ring, TryConvertFrom(ring.q, u))
             drawn == PRngFillRows(p_rng, d, <<>>)
         IN  [err |-> "none",
              enc_beta_m |-> [i \in 1..d |->
                  ElwiseAdd(ring.q,
                      ElwiseAdd(ring.q, RingNttMul(ring, drawn.a[i], u_poly_eval), rnd.e[i]),
                      ElwiseScalarMul(ring.q, m, gadget_vec[i]))],
              zero_encryptions |-> [i \in 1..d |->
                  ElwiseAdd(ring.q, RingNttMul(ring, drawn.a[i], s_poly_eval),
                            rnd.e_zero[i])],
              a |-> drawn.a,
              p_rng |-> drawn.p_rng]

-----------------------------------------------------------------------------
(* Calls of the functions that draw from p_rng *)

\* the arguments of each function: secrets, messages, the p_rng stream, and what the
\* noise generator rng returns
PRngStreams == { << <<1, 2>>, <<0, 4>> >>, << <<3, 3>>, <<2, 0>> >> }
PRngGadgets == { <<1, 4>>, <<1, 4, 16>> }
PRngSecrets == { <<1, 0, 0, -1>>, <<0, 1, -1, 0>>, <<-1, -1, 0, 0>> }
PRngRnd(d) ==
    { [e |-> [i \in 1..d |-> e], e_zero |-> [i \in 1..d |-> e_zero]] :
        e \in KgNoisePolys, e_zero \in KgNoisePolys }

PRngInputs(fn) ==
    CASE fn = "public_key_share" ->
            [fn : {fn}, s : TernaryWithHammingWeight(RingN, RingN \div 2),
             p_rng : PRngStreams, e : RlweNoise]
      [] fn = "seeded_secret_key_encrypt_rlwe" ->
            [fn : {fn}, m : {<<0, 0>>, <<1, 3>>},
             s : TernaryWithHammingWeight(RingN, RingN \div 2),
             p_rng : PRngStreams, e : RlweNoise]
      [] fn = "rlwe_public_key" ->
            [fn : {fn}, s : TernaryWithHammingWeight(RingN, RingN \div 2),
             p_rng : PRngStreams, e : RlweNoise]
      [] fn = "seeded_rlwe_ksk_gen" ->
            UNION { [fn : {fn}, neg_from_s : RgswMessages,
                     to_s : { TryConvertFrom(KgRing.q, s) : s \in PRngSecrets },
                     gadget_vector : {g}, p_rng : KgPRngs, e : KgNoise(Len(g))] :
                    g \in PRngGadgets }
      [] fn = "secret_key_encrypt_rgsw" ->
            [fn : {fn}, out_rows : {2 * Len(RgswGadgetA) + Len(RgswGadgetB)},
             m : RgswMessages, gadget_a : {RgswGadgetA}, gadget_b : {RgswGadgetB},
             s : PRngSecrets, p_rng : KgPRngs, rnd : RgswSecretKeyRnd]
      [] fn = "non_interactive_rgsw_ct" ->
            UNION { [fn : {fn}, s : PRngSecrets, u : {<<1, 0, 0, -1>>, <<0, 1, 1, 0>>},
                     m : RgswMessages, gadget_vec : {g}, p_rng : KgPRngs,
                     rnd : PRngRnd(Len(g))] : g \in PRngGadgets }

\* the call of the function call_args names: what it returns, with the
\* polynomials it drew from p_rng (a) and the p_rng it leaves
PRngCall(c) ==
    CASE c.fn = "public_key_share" ->
            LET r == public_key_share(c.s, c.p_rng, c.e)
            IN  [out |-> r.share, a |-> <<r.a>>, p_rng |-> r.p_rng]
      [] c.fn = "seeded_secret_key_encrypt_rlwe" ->
            LET r == seeded_secret_key_encrypt_rlwe(c.m, c.s, c.p_rng, c.e)
            IN  [out |-> r.b, a |-> <<r.a>>, p_rng |-> r.p_rng]
      [] c.fn = "rlwe_public_key" ->
            LET r == rlwe_public_key(c.s, c.p_rng, c.e)
            IN  [out |-> r.b, a |-> <<r.a>>, p_rng |-> r.p_rng]
      [] c.fn = "seeded_rlwe_ksk_gen" ->
            LET r == seeded_rlwe_ksk_gen(KgRing, Len(c.gadget_vector), c.neg_from_s,
                                         c.to_s, c.gadget_vector, c.p_rng, c.e)
            IN  [out |-> r.ksk_out, a |-> r.a, p_rng |-> r.p_rng]
      [] c.fn = "secret_key_encrypt_rgsw" ->
            LET r == secret_key_encrypt_rgsw(KgRing, c.out_rows, c.m, c.gadget_a,
                                             c.gadget_b, c.s, c.p_rng, c.rnd)
            IN  [out |-> r.out_rgsw, a |-> r.a, p_rng |-> r.p_rng]
      [] c.fn = "non_interactive_rgsw_ct" ->
            LET r == non_interactive_rgsw_ct(KgRing, c.s, c.u, c.m, c.gadget_vec,
                                             c.p_rng, c.rnd)
            IN  [out |-> <<r.enc_beta_m, r.zero_encryptions>>, a |-> r.a,
                 p_rng |-> r.p_rng]

PRngFunctions == {"public_key_share", "seeded_secret_key_encrypt_rlwe",
                  "rlwe_public_key", "seeded_rlwe_ksk_gen",
                  "secret_key_encrypt_rgsw", "non_interactive_rgsw_ct"}

InitPRng ==
    /\ \E fn \in PRngFunctions : call_args \in PRngInputs(fn)
    /\ call_ret = None
    /\ DecIdle
    /\ PkIdle
    /\ RlIdle
    /\ U8Idle
    /\ PbsIdle

CallWithPRng(fn) ==
    /\ call_args # None /\ call_args.fn = fn
    /\ call_ret = None
    /\ call_ret' = PRngCall(call_args)
    /\ UNCHANGED call_args
    /\ UNCHANGED <<decVars, pkVars, rlVars, u8Vars, pbsVars>>

NextPRng ==
    \/ CallWithPRng("public_key_share")
    \/ CallWithPRng("seeded_secret_key_encrypt_rlwe")
    \/ CallWithPRng("rlwe_public_key")
    \/ CallWithPRng("seeded_rlwe_ksk_gen")
    \/ CallWithPRng("secret_key_encrypt_rgsw")
    \/ CallWithPRng("non_interactive_rgsw_ct")

SpecPRng == InitPRng /\ [][NextPRng]_vars

-----------------------------------------------------------------------------
(* Calls of single functions of rgsw/keygen.rs, continued *)

\* the ring sizes and the k generate_auto_map is called with
AutoMapRingSizes == {2, 4, 8}
AutoMapKs == (-17)..17

InitGenerateAutoMap ==
    /\ call_args \in [fn : {"generate_auto_map"}, ring_size : AutoMapRingSizes,
                       k : AutoMapKs]
    /\ call_ret = None
    /\ DecIdle
    /\ PkIdle
    /\ RlIdle
    /\ U8Idle
    /\ PbsIdle

CallGenerateAutoMap ==
    /\ call_args # None /\ call_args.fn = "generate_auto_map"
    /\ call_ret = None
    /\ call_ret' = generate_auto_map(call_args.ring_size, call_args.k)
    /\ UNCHANGED call_args
    /\ UNCHANGED <<decVars, pkVars, rlVars, u8Vars, pbsVars>>

NextGenerateAutoMap == CallGenerateAutoMap

SpecGenerateAutoMap == InitGenerateAutoMap /\ [][NextGenerateAutoMap]_vars

NextPbs ==
    \/ ModDown
    \/ KeySwitch
    \/ Buckets
    \/ TestPoly
    \/ BlindRotationHalf
    \/ BlindRotationNegG0
    \/ BlindRotationPosG0
    \/ SampleExtract

SpecPbs == InitPbs /\ [][NextPbs]_vars

-----------------------------------------------------------------------------
(* The multi-party session: a run is either the public-key round or the    *)
(* decryption of one output ciphertext                                     *)

InitMP == \/ InitDec /\ PkIdle /\ RlIdle /\ U8Idle /\ PbsIdle /\ CallIdle
          \/ InitPk /\ DecIdle /\ RlIdle /\ U8Idle /\ PbsIdle /\ CallIdle
NextMP == NextDec \/ NextPk
SpecMP == InitMP /\ [][NextMP]_vars

-----------------------------------------------------------------------------
(* Properties of the multi-party session *)

\* the aggregator summed one share of every party
AllSharesAggregated == dec_status = "value" /\ Len(dec_order) = NumParties

\* C1: with the shares of all N parties the aggregate is
\* b - <a, z_1+...+z_N> + (e_1+...+e_N) mod q, which with all e_i = 0 is the
\* decryption of the ciphertext under the joint secret z = sum of z_i.
C1_AggregateIsNoisyDecryption ==
    AllSharesAggregated =>
        LET z == JointSecret(lwe_sk, LweN)
            e == [i \in Parties |-> dec_shares[i].e]
            ideal == (lwe_ct[1] - InnerProduct(lwe_ct, z)) % LweQ
        IN  /\ \A i \in Parties :
                 dec_shares[i].share = (e[i] - InnerProduct(lwe_ct, lwe_sk[i])) % LweQ
            /\ dec_out = (lwe_ct[1] - InnerProduct(lwe_ct, z) + SumOver(e, 1, NumParties)) % LweQ
            /\ (\A i \in Parties : e[i] = 0) => dec_out = ideal

C1_Witness ==
    /\ AllSharesAggregated
    /\ \E i \in Parties : dec_shares[i].e # 0
    /\ \E j \in 1..LweN : lwe_ct[j + 1] # 0 /\ JointSecret(lwe_sk, LweN)[j] < 0
    /\ dec_out # lwe_ct[1]

\* C2: a decryption value is returned only when the shares of all N parties were
\* aggregated; with the shares of a proper subset the mismatch is reported.
C2_FewerSharesReported ==
    dec_status = "value" => Len(dec_order) = NumParties

\* C4: the aggregate of the decryption shares, and the sum of the public key
\* shares, is the same for every order of the parties' shares.
C4_AggregationOrderIndependent ==
    /\ AllSharesAggregated =>
            \A order \in Orderings(Parties) :
                multi_party_aggregate_decryption_shares_and_decrypt(
                    LweQ, lwe_ct, [j \in 1..NumParties |-> dec_shares[order[j]].share])
                = dec_out
    /\ pk_status = "aggregated" =>
            \A order \in Orderings(Parties) :
                aggregate_public_key_shares(
                    [j \in 1..NumParties |-> pk_shares[order[j]].share])
                = pk_sum

C4_Witness ==
    /\ AllSharesAggregated
    /\ dec_order # [j \in 1..NumParties |-> j]
    /\ \E i, k \in Parties : dec_shares[i].share # dec_shares[k].share

\* the parties' noise polynomials summed coefficient-wise mod Q
NoiseSum(shares) ==
    [j \in 1..RingN |-> SumOver([i \in Parties |-> shares[i].e[j]], 1, NumParties) % RlweQ]

\* C5: all parties draw the same a from the CRS, every share is a*s_i + e_i, and
\* the sum of the shares is a*(s_1+...+s_N) + (e_1+...+e_N) in Z_Q[X]/(X^N+1).
C5_PublicKeyIsRlweOfZero ==
    /\ \A i \in SharedBy(pk_shares) :
            /\ pk_shares[i].a = crs[1]
            /\ pk_shares[i].share =
                   ElwiseAdd(RlweQ, NegacyclicMul(crs[1], rlwe_sk[i]), pk_shares[i].e)
    /\ pk_status = "aggregated" =>
            pk_sum = ElwiseAdd(RlweQ,
                               NegacyclicMul(crs[1], JointSecret(rlwe_sk, RingN)),
                               NoiseSum(pk_shares))

C5_Witness ==
    /\ pk_status = "aggregated"
    /\ crs[1] \notin { ZeroPoly, <<1, 0>> }
    /\ \E i \in Parties : pk_shares[i].e # ZeroPoly
    /\ \E j \in 1..RingN : JointSecret(rlwe_sk, RingN)[j] < 0
    /\ pk_sum # NoiseSum(pk_shares)

-----------------------------------------------------------------------------
(* Properties of RLWE encryption and decryption *)

\* a - b coefficient-wise mod Q
PolySub(a, b) == [j \in 1..RingN |-> (a[j] - b[j]) % RlweQ]

\* C7: seeded_secret_key_encrypt_rlwe returns b = a*s + e + m for the a drawn from
\* p_rng, decrypt_rlwe of (a, b) under s returns m + e, and m itself when e = 0.
C7_SecretKeyRoundTrip ==
    (rl_ct # None /\ rl_ct.kind = "sk") =>
        /\ rl_ct.ct[1] = rl_crs[1]
        /\ rl_ct.ct[2] = ElwiseAdd(RlweQ,
                                   ElwiseAdd(RlweQ, NegacyclicMul(rl_crs[1], rl_s), rl_ct.e),
                                   rl_ct.m)
        /\ rl_m_out # None =>
               /\ rl_m_out.m = ElwiseAdd(RlweQ, rl_ct.m, rl_ct.e)
               /\ rl_ct.e = ZeroPoly => rl_m_out.m = rl_ct.m

C7_Witness ==
    /\ rl_ct # None /\ rl_ct.kind = "sk" /\ rl_m_out # None
    /\ rl_ct.e = ZeroPoly
    /\ rl_ct.m \notin { ZeroPoly, rl_ct.ct[2] }
    /\ rl_crs[1] # ZeroPoly
    /\ rl_m_out.m = rl_ct.m

\* C8: public_key_encrypt_rlwe returns (p_0*u + e_0, p_1*u + e_1 + m) for the one
\* u drawn, and with p_1 = p_0*s + e decrypt_rlwe under s returns
\* m + e*u + e_1 - e_0*s.
C8_PublicKeyEncryption ==
    (rl_ct # None /\ rl_ct.kind = "pk") =>
        LET p0 == rl_pk.pk[1]
            p1 == rl_pk.pk[2]
            u == rl_ct.u
        IN  /\ p1 = ElwiseAdd(RlweQ, NegacyclicMul(p0, rl_s), rl_pk.e)
            /\ rl_ct.ct[1] = ElwiseAdd(RlweQ, NegacyclicMul(p0, u), rl_ct.e0)
            /\ rl_ct.ct[2] = ElwiseAdd(RlweQ,
                                       ElwiseAdd(RlweQ, NegacyclicMul(p1, u), rl_ct.e),
                                       rl_ct.m)
            /\ rl_m_out # None =>
                   rl_m_out.m =
                       PolySub(ElwiseAdd(RlweQ,
                                         ElwiseAdd(RlweQ, rl_ct.m, NegacyclicMul(rl_pk.e, u)),
                                         rl_ct.e),
                               NegacyclicMul(rl_ct.e0, rl_s))

C8_Witness ==
    /\ rl_ct # None /\ rl_ct.kind = "pk" /\ rl_m_out # None
    /\ rl_pk.e # ZeroPoly /\ rl_ct.e0 # ZeroPoly /\ rl_ct.e # ZeroPoly
    /\ rl_pk.pk[1] # ZeroPoly
    /\ rl_ct.m # ZeroPoly
    /\ rl_m_out.m # rl_ct.m

-----------------------------------------------------------------------------
(* Properties of FheUint8 *)

\* C3: every decryption entry point of FheUint8 (decrypt, gen_decryption_share,
\* aggregate_decryption_shares) fails when it is handed an FheUint8 that holds
\* fewer or more than 8 bit ciphertexts.
C3_WrongLengthReported ==
    (u8_out # None /\ u8_out.shape # "ok") =>
        \A k \in 1..Len(u8_out.res) : u8_out.res[k].status = "panic"

\* C9: encrypt produces exactly 8 bit ciphertexts, the one at position i
\* encrypting bit i of m, and decrypt returns m without overflowing.
C9_Uint8RoundTrip ==
    (u8_status = "client" /\ u8_c # None) =>
        /\ Len(u8_c[1]) = 8
        /\ \A i \in 0..7 :
              BoolDecrypt(u8_c[1][i + 1], IdealSecret(u8_sk)) = ((u8_m[1] \div (2 ^ i)) % 2 = 1)
        /\ (u8_out # None /\ u8_out.entry = "decrypt" /\ u8_out.shape = "ok") =>
              u8_out.res = << [status |-> "value", value |-> u8_m[1]] >>

C9_Witness ==
    /\ u8_status = "client" /\ u8_out # None
    /\ u8_out.entry = "decrypt" /\ u8_out.shape = "ok"
    /\ u8_m[1] = 255
    /\ u8_out.res[1].value = 255

\* C10: the decrypted results of +=, -, * and div_rem are the wrapping sum,
\* difference and product of the operands, and for a non-zero divisor the
\* Euclidean quotient and remainder.
C10_ArithmeticMatchesWrapping ==
    (u8_out # None /\ u8_out.entry = "decrypt_result") =>
        LET a == u8_m[1]
            b == u8_m[2]
            got == [k \in 1..Len(u8_out.res) |-> u8_out.res[k].value]
        IN  /\ \A k \in 1..Len(u8_out.res) : u8_out.res[k].status = "value"
            /\ u8_res.op = "add_assign" => got = << (a + b) % 256 >>
            /\ u8_res.op = "sub" => got = << (a - b) % 256 >>
            /\ u8_res.op = "mul" => got = << (a * b) % 256 >>
            /\ (u8_res.op = "div_rem" /\ b # 0) => got = << a \div b, a % b >>

C10_Witness ==
    /\ u8_out # None /\ u8_out.entry = "decrypt_result"
    /\ u8_res.op = "div_rem"
    /\ u8_m = <<200, 3>>
    /\ u8_out.res[1].value = 66 /\ u8_out.res[2].value = 2

\* C11: div_rem by zero raises no error: for every dividend a the decrypted
\* quotient is 255 and the decrypted remainder is a.
C11_DivisionByZeroDefined ==
    (u8_res # None /\ u8_res.op = "div_rem" /\ u8_m[2] = 0) =>
        /\ Len(u8_res.data) = 2
        /\ \A k \in 1..2 : Len(u8_res.data[k]) = 8
        /\ (u8_out # None /\ u8_out.entry = "decrypt_result") =>
              u8_out.res = << [status |-> "value", value |-> 255],
                              [status |-> "value", value |-> u8_m[1]] >>

C11_Witness ==
    /\ u8_out # None /\ u8_out.entry = "decrypt_result"
    /\ u8_res.op = "div_rem"
    /\ u8_m = <<200, 0>>
    /\ u8_out.res[1].value = 255 /\ u8_out.res[2].value = 200

\* the value the shares of all parties open bit ciphertext i of c0 to
OpenedBit(i) ==
    BoolDecode((u8_c[1][i][1]
                + SumOver([k \in Parties |-> u8_shares[k].share[i]], 1, NumParties)) % BoolQ)

\* C13: gen_decryption_share returns one share per bit ciphertext, in bit
\* order; aggregate_decryption_shares opens bit i from the i-th share of every
\* party and the i-th bit ciphertext, and returns the sum of bit_i * 2^i, which
\* is the encrypted value.
C13_MultiPartyDecryptionOfUint8 ==
    (u8_status = "parties" /\ u8_c # None) =>
        /\ \A p \in Parties : u8_shares[p] # None =>
              /\ Len(u8_shares[p].share) = 8
              /\ \A i \in 1..8 :
                    u8_shares[p].share[i] =
                        (u8_shares[p].e - InnerProduct(u8_c[1][i], u8_sk[p])) % BoolQ
        /\ (u8_out # None /\ u8_out.entry = "aggregate_decryption_shares"
                /\ u8_out.shape = "ok") =>
              /\ u8_out.res[1].status = "value"
              /\ u8_out.res[1].value =
                    SumOver([i \in 1..8 |-> IF OpenedBit(i) THEN 2 ^ (i - 1) ELSE 0], 1, 8)
              /\ u8_out.res[1].value = u8_m[1]

C13_Witness ==
    /\ u8_status = "parties" /\ u8_out # None
    /\ u8_out.entry = "aggregate_decryption_shares" /\ u8_out.shape = "ok"
    /\ u8_m[1] = 165
    /\ u8_out.res[1].value = 165
    /\ \A p \in Parties : u8_shares[p].e # 0
    /\ \E i \in 1..8 : u8_shares[1].share[i] # u8_shares[1].share[1]

\* C12: the comparisons decrypt to the relations of the clear operands:
\* eq to a = b, neq to a # b, gt to a > b, lt to a < b, ge to a >= b and
\* le to a <= b.
C12_ComparisonsMatchClear ==
    (u8_out # None /\ u8_out.entry = "decrypt_bool") =>
        LET a == u8_m[1]
            b == u8_m[2]
            got == u8_out.res[1].value
        IN  /\ u8_res.op = "eq" => got = (a = b)
            /\ u8_res.op = "neq" => got = (a # b)
            /\ u8_res.op = "gt" => got = (a > b)
            /\ u8_res.op = "lt" => got = (a < b)
            /\ u8_res.op = "ge" => got = (a >= b)
            /\ u8_res.op = "le" => got = (a <= b)

C12_Witness ==
    /\ u8_out # None /\ u8_out.entry = "decrypt_bool"
    /\ u8_res.op = "ge"
    /\ u8_m = <<84, 85>>
    /\ u8_out.res[1].value = FALSE

-----------------------------------------------------------------------------
(* Properties of pbs *)

\* C6: a call of pbs on an LWE ciphertext of length N + 1 with coordinates in
\* [0, Q), for q a power of two with 4 <= q <= 2N, odd g, w >= 1 and a dlog map
\* with values in [0, q/2), runs into no failed assertion, no failed numeric
\* conversion and no out-of-range index.
C6_PbsIsTotal ==
    /\ pbs_err = "none"
    /\ pbs_pc # "failed"
    /\ pbs_pc = "mod_down" =>
          /\ Len(pbs_lwe_in) = pbs_par.rlwe_n + 1
          /\ \A j \in 1..Len(pbs_lwe_in) : pbs_lwe_in[j] \in 0..(PbsRlweQ - 1)
          /\ pbs_par.br_q \in {4, 8, 16} /\ pbs_par.br_q <= 2 * pbs_par.rlwe_n
          /\ pbs_par.g % 2 = 1 /\ pbs_par.w >= 1
          /\ \A a1 \in 1..pbs_par.br_q : GKDlogMap(pbs_par)[a1] \in 0..(pbs_par.br_q \div 2 - 1)

C6_Witness ==
    /\ pbs_pc = "done"
    /\ pbs_par.br_q = 16 /\ pbs_par.rlwe_n = 8 /\ pbs_par.w = 2
    /\ \E k \in 1..(pbs_par.br_q \div 2) : Len(pbs_g_k_si[k]) = 2
    /\ \E j \in 1..Len(pbs_trace) : pbs_trace[j].op = "rlwe_auto" /\ pbs_trace[j].k = 2
    /\ (pbs_par.g * mod_switch_odd(pbs_scratch[1], PbsLweQ, pbs_par.br_q)) % pbs_par.br_q
          > pbs_par.br_q \div 2

-----------------------------------------------------------------------------
(* Properties of blind_rotation *)

\* positions of the trace, by kind of entry
IsBucketRead(j) == pbs_trace[j].op = "bucket"
IsAuto(j) == pbs_trace[j].op = "rlwe_auto"
IsExternalProduct(j) == pbs_trace[j].op = "rlwe_by_rgsw"

\* the position of the last automorphism before position j, 0 when there is none
RECURSIVE PrevAuto(_)
PrevAuto(j) == IF j <= 1 THEN 0 ELSE IF IsAuto(j - 1) THEN j - 1 ELSE PrevAuto(j - 1)

\* the position of the last bucket read before position j, 0 when there is none
RECURSIVE PrevBucketRead(_)
PrevBucketRead(j) ==
    IF j <= 1 THEN 0 ELSE IF IsBucketRead(j - 1) THEN j - 1 ELSE PrevBucketRead(j - 1)

\* the number of buckets read since the last automorphism before position j
StepsBefore(j) == Cardinality({p \in (PrevAuto(j) + 1)..(j - 1) : IsBucketRead(p)})

\* the bucket exponent i of a bucket k of either half
BucketExponent(k) == k % (pbs_par.br_q \div 4)

\* C14: the auto key and auto map of index k hold the automorphism element g^k mod q
\* when k > 0 and -g when k = 0; blind_rotation asks for an index v > 0 exactly
\* after v bucket steps without an automorphism, to apply X -> X^(g^v), and for index
\* 0 only after the bucket of -(g^0), for the automorphism of -g.
C14_AutoIndexIsDiscreteLog ==
    \A j \in 1..Len(pbs_trace) :
        IsAuto(j) =>
            LET k == pbs_trace[j].k
                q == pbs_par.br_q
            IN  /\ k > 0 =>
                      /\ k = StepsBefore(j)
                      /\ pbs_trace[PrevBucketRead(j)].k \notin {0, q \div 4}
                      /\ AutoElement(pbs_par, k) = ModPow(q, pbs_par.g, StepsBefore(j))
                /\ k = 0 =>
                      /\ pbs_trace[PrevBucketRead(j)].k = q \div 4
                      /\ AutoElement(pbs_par, k) % q = ModNeg(q, pbs_par.g % q)

C14_Witness ==
    /\ pbs_br # None /\ pbs_br.phase = "done"
    /\ pbs_par.br_q = 16 /\ pbs_par.w >= 2
    /\ \E j \in 1..Len(pbs_trace) : IsAuto(j) /\ pbs_trace[j].k = 2
    /\ \E j \in 1..Len(pbs_trace) : IsAuto(j) /\ pbs_trace[j].k = 1
    /\ \E j \in 1..Len(pbs_trace) : IsAuto(j) /\ pbs_trace[j].k = 0

\* the sum of the indices of the automorphisms at the trace positions lo..hi
RECURSIVE AutoSum(_, _)
AutoSum(lo, hi) ==
    IF lo > hi THEN 0
    ELSE (IF IsAuto(lo) THEN pbs_trace[lo].k ELSE 0) + AutoSum(lo + 1, hi)

\* the positions at which the bucket of g^0 of a half is read: a half-loop has
\* ended there
IsHalfEnd(j) == IsBucketRead(j) /\ pbs_trace[j].k \in {0, pbs_par.br_q \div 4}

\* the position of the first end of a half-loop after position j, 0 when the
\* half-loop of position j is still running
RECURSIVE NextHalfEnd(_)
NextHalfEnd(j) ==
    IF j >= Len(pbs_trace) THEN 0
    ELSE IF IsHalfEnd(j + 1) THEN j + 1 ELSE NextHalfEnd(j + 1)

\* the position of the next bucket read after position j, Len + 1 when there is none
RECURSIVE NextBucketRead(_)
NextBucketRead(j) ==
    IF j >= Len(pbs_trace) THEN Len(pbs_trace) + 1
    ELSE IF IsBucketRead(j + 1) THEN j + 1 ELSE NextBucketRead(j + 1)

\* C15: for every bucket of exponent i in [1, q/4) of either half that holds an
\* LWE index, the indices of the automorphisms applied after the bucket's
\* external products and before the end of its half-loop sum to exactly i,
\* whatever the buckets hold and whatever the window w; after the external
\* products of the bucket of g^0 of a half no automorphism of a power of g follows
\* within that half.
C15_ShiftAccounting ==
    \A p \in 1..Len(pbs_trace) :
        IsBucketRead(p) =>
            IF IsHalfEnd(p)
            THEN \A j \in (p + 1)..(NextBucketRead(p) - 1) :
                    IsAuto(j) => pbs_trace[j].k = 0
            ELSE (NextHalfEnd(p) # 0 /\ Len(pbs_g_k_si[pbs_trace[p].k + 1]) # 0) =>
                    AutoSum(p + 1, NextHalfEnd(p) - 1) = BucketExponent(pbs_trace[p].k)

\* the statement of C15 for every bucket, the empty ones included: the indices
\* of the automorphisms applied after the iteration of bucket i has read the
\* bucket sum to i
C15_ShiftAccountingOfEveryBucket ==
    \A p \in 1..Len(pbs_trace) :
        IsBucketRead(p) =>
            IF IsHalfEnd(p)
            THEN \A j \in (p + 1)..(NextBucketRead(p) - 1) :
                    IsAuto(j) => pbs_trace[j].k = 0
            ELSE NextHalfEnd(p) # 0 =>
                    AutoSum(p + 1, NextHalfEnd(p) - 1) = BucketExponent(pbs_trace[p].k)

C15_Witness ==
    /\ pbs_br # None /\ pbs_br.phase = "done"
    /\ pbs_par.br_q = 16 /\ pbs_par.w = 2
    /\ Len(pbs_g_k_si[4]) # 0 /\ Len(pbs_g_k_si[7]) # 0
    /\ \E p \in 1..Len(pbs_trace) :
          /\ IsBucketRead(p) /\ pbs_trace[p].k = 3
          /\ AutoSum(p + 1, NextHalfEnd(p) - 1) = 3
          /\ Cardinality({j \in (p + 1)..(NextHalfEnd(p) - 1) : IsAuto(j)}) = 2

\* the buckets read so far, in the order of reading
BucketsRead ==
    LET reads == SelectSeq(pbs_trace, LAMBDA e : e.op = "bucket")
    IN  [j \in 1..Len(reads) |-> reads[j].k]

\* the order of C16: q/4 + (q/4 - 1), ..., q/4 + 1, then q/4, then q/4 - 1, ..., 1,
\* then 0
BucketOrder ==
    LET q_by_4 == pbs_par.br_q \div 4
    IN  [j \in 1..(2 * q_by_4) |->
            IF j < q_by_4 THEN q_by_4 + (q_by_4 - j)
            ELSE IF j = q_by_4 THEN q_by_4
            ELSE 2 * q_by_4 - j]

\* the LWE indices of the external products recorded at the trace positions lo..hi
RECURSIVE ProductsIn(_, _)
ProductsIn(lo, hi) ==
    IF lo > hi THEN <<>>
    ELSE (IF IsExternalProduct(lo) THEN <<pbs_trace[lo].si>> ELSE <<>>)
            \o ProductsIn(lo + 1, hi)

\* C16: blind_rotation reads the buckets in the order q/4 + (q/4 - 1), ..., q/4 + 1,
\* then q/4 followed by the automorphism of index 0, then q/4 - 1, ..., 1, then 0
\* last; when it returns each of the q/2 buckets has been read exactly once, the
\* external products after a bucket read are those of the LWE indices of that
\* bucket, and every LWE index of the buckets has had exactly one external product.
C16_BucketsVisitedInOrder ==
    /\ Len(BucketsRead) <= Len(BucketOrder)
    /\ \A j \in 1..Len(BucketsRead) : BucketsRead[j] = BucketOrder[j]
    /\ \A p \in 1..Len(pbs_trace) :
          IsBucketRead(p) =>
            LET k == pbs_trace[p].k
                n == Len(pbs_g_k_si[k + 1])
            IN  /\ ProductsIn(p + 1, NextBucketRead(p) - 1) = pbs_g_k_si[k + 1]
                /\ \A j \in (p + 1)..(p + n) : IsExternalProduct(j)
                /\ k = pbs_par.br_q \div 4 => IsAuto(p + n + 1) /\ pbs_trace[p + n + 1].k = 0
    /\ (pbs_br # None /\ pbs_br.phase = "done") =>
          /\ BucketsRead = BucketOrder
          /\ \A si \in 0..(PbsLweN - 1) :
                Cardinality({j \in 1..Len(pbs_trace) :
                                IsExternalProduct(j) /\ pbs_trace[j].si = si}) = 1

C16_Witness ==
    /\ pbs_br # None /\ pbs_br.phase = "done"
    /\ pbs_par.br_q = 16
    /\ BucketsRead = <<7, 6, 5, 4, 3, 2, 1, 0>>
    /\ Len(pbs_g_k_si[7]) = 1 /\ Len(pbs_g_k_si[2]) = 1
    /\ Len(ProductsIn(1, Len(pbs_trace))) = PbsLweN

\* C17: in an iteration of a half-loop, after the external products of bucket k
\* the window counter is one more than before, and the automorphism of the
\* counter's value is applied if and only if the next lower bucket is not empty,
\* or the counter equals w, or k = 1; after an automorphism the counter is 0,
\* otherwise it keeps the incremented value.
C17_AutomorphismTrigger ==
    [][(pbs_pc = "blind_rotation" /\ pbs_br.phase \in {"neg", "pos"}) =>
          LET q_by_4 == pbs_par.br_q \div 4
              k == pbs_br.i
              lower == IF pbs_br.phase = "neg" THEN q_by_4 + k - 1 ELSE k - 1
              counter == pbs_br.v + 1
              last == Len(pbs_trace')
              applied == /\ last > Len(pbs_trace)
                         /\ pbs_trace'[last].op = "rlwe_auto"
          IN  /\ k \in 1..(q_by_4 - 1)
              /\ applied <=> (Len(pbs_g_k_si[lower + 1]) # 0 \/ counter = pbs_par.w \/ k = 1)
              /\ applied => pbs_trace'[last].k = counter /\ pbs_br'.v = 0
              /\ ~applied => pbs_br'.v = counter
              /\ pbs_br'.i = k - 1
    ]_vars

C17_Witness ==
    /\ pbs_br # None /\ pbs_br.phase = "pos" /\ pbs_br.v = 1 /\ pbs_br.i = 2
    /\ pbs_par.br_q = 16 /\ pbs_par.w = 3
    /\ \E j \in 1..Len(pbs_trace) : IsAuto(j) /\ pbs_trace[j].k = 2
    /\ \E j \in 1..Len(pbs_trace) : IsAuto(j) /\ pbs_trace[j].k = 1

\* the number of automorphisms of index 0 applied so far
NegGAutos == Cardinality({j \in 1..Len(pbs_trace) : IsAuto(j) /\ pbs_trace[j].k = 0})

\* blind_rotation has returned
BlindRotationReturned == pbs_br.phase = "done"

\* C18: every blind rotation terminates; it has returned exactly when all q/2
\* buckets have been processed and the automorphism of index 0 has been applied;
\* when it returns that automorphism has been applied exactly once, and at the end
\* of each half-loop and at the return the window counter is 0.
C18_BlindRotationTerminates ==
    /\ <>BlindRotationReturned
    /\ [](BlindRotationReturned <=>
            (Len(BucketsRead) = pbs_par.br_q \div 2 /\ NegGAutos >= 1))
    /\ [](BlindRotationReturned => NegGAutos = 1 /\ pbs_br.v = 0)
    /\ [](pbs_br.phase \in {"neg0", "pos0"} => pbs_br.v = 0)

C18_Witness ==
    /\ BlindRotationReturned
    /\ pbs_par.br_q = 16 /\ pbs_par.w = 2
    /\ Len(BucketsRead) = 8 /\ NegGAutos = 1 /\ pbs_br.v = 0
    /\ Cardinality({j \in 1..Len(pbs_trace) : IsAuto(j)}) = 5
    /\ Len(pbs_g_k_si[1]) = 0

\* the trace positions of the calls that take the flag is_trivial
TakesFlag(j) == IsExternalProduct(j) \/ IsAuto(j)

\* no external product is recorded before trace position j
NoProductBefore(j) == \A p \in 1..(j - 1) : ~IsExternalProduct(p)

\* C19: the flag is_trivial passed to an external product or to an automorphism is
\* true if and only if no external product has been executed earlier in this
\* blind rotation: the first external product receives true and sets the flag to
\* false, an automorphism passes the flag on unchanged, and after a false flag no
\* call receives a true one.
C19_TrivialFlag ==
    /\ \A j \in 1..Len(pbs_trace) :
          TakesFlag(j) => (pbs_trace[j].is_trivial <=> NoProductBefore(j))
    /\ pbs_br.is_trivial <=> NoProductBefore(Len(pbs_trace) + 1)
    /\ \A j \in 1..Len(pbs_trace) : \A l \in (j + 1)..Len(pbs_trace) :
          (TakesFlag(j) /\ TakesFlag(l) /\ ~pbs_trace[j].is_trivial)
             => ~pbs_trace[l].is_trivial
    /\ \A j \in 1..Len(pbs_trace) : \A l \in (j + 1)..Len(pbs_trace) :
          (IsAuto(j) /\ TakesFlag(l) /\ \A p \in (j + 1)..(l - 1) : ~TakesFlag(p))
             => pbs_trace[l].is_trivial = pbs_trace[j].is_trivial

C19_Witness ==
    /\ BlindRotationReturned
    /\ \E j \in 1..Len(pbs_trace) :
          /\ IsAuto(j) /\ pbs_trace[j].is_trivial
          /\ \E l \in (j + 1)..Len(pbs_trace) :
                /\ IsExternalProduct(l) /\ pbs_trace[l].is_trivial
                /\ \E a \in (l + 1)..Len(pbs_trace) :
                      /\ IsAuto(a) /\ ~pbs_trace[a].is_trivial
                      /\ \E x \in (a + 1)..Len(pbs_trace) :
                            IsExternalProduct(x) /\ ~pbs_trace[x].is_trivial

\* the automorphism at trace position j is applied inside a half-loop
InHalfLoop(j) == PrevBucketRead(j) # 0 /\ ~IsHalfEnd(PrevBucketRead(j))

Min(a, b) == IF a <= b THEN a ELSE b

\* C20: whenever blind_rotation asks for the auto key and auto map of index v inside
\* a half-loop, 1 <= v <= min(w, q/4 - 1); over every bucket assignment the auto
\* keys read are those of the indices 0..w only, none is missing, and the index 0
\* is never asked for inside a half-loop.
C20_WindowBound ==
    /\ pbs_pc # "failed"
    /\ \A j \in 1..Len(pbs_trace) :
          IsAuto(j) =>
            /\ pbs_trace[j].k \in 0..pbs_par.w
            /\ InHalfLoop(j) =>
                  /\ 1 <= pbs_trace[j].k
                  /\ pbs_trace[j].k <= Min(pbs_par.w, pbs_par.br_q \div 4 - 1)
            /\ pbs_trace[j].k = 0 => ~InHalfLoop(j)

C20_Witness ==
    /\ BlindRotationReturned
    /\ pbs_par.br_q = 16 /\ pbs_par.w = 4
    /\ \E j \in 1..Len(pbs_trace) : IsAuto(j) /\ InHalfLoop(j) /\ pbs_trace[j].k = 3
    /\ \E j \in 1..Len(pbs_trace) : IsAuto(j) /\ InHalfLoop(j) /\ pbs_trace[j].k = 1
    /\ \E j \in 1..Len(pbs_trace) : IsAuto(j) /\ ~InHalfLoop(j) /\ pbs_trace[j].k = 0

-----------------------------------------------------------------------------
(* Properties of the steps of pbs *)

\* the key switch has written scratch_lwe_vec
KeySwitched == pbs_pc \notin {"mod_down", "key_switch"}

\* x | 1 on the binary digits of x
RECURSIVE BitOr(_, _)
BitOr(x, y) ==
    IF x = 0 THEN y ELSE IF y = 0 THEN x
    ELSE (IF x % 2 = 1 \/ y % 2 = 1 THEN 1 ELSE 0) + 2 * BitOr(x \div 2, y \div 2)

RECURSIVE Gcd(_, _)
Gcd(a, b) == IF b = 0 THEN a ELSE Gcd(b, a % b)

\* the bucket of g_k_si that holds the LWE index si, -1 when none does
BucketOf(si) ==
    IF \E k \in 1..Len(pbs_g_k_si) : \E j \in 1..Len(pbs_g_k_si[k]) : pbs_g_k_si[k][j] = si
    THEN (CHOOSE k \in 1..Len(pbs_g_k_si) :
            \E j \in 1..Len(pbs_g_k_si[k]) : pbs_g_k_si[k][j] = si) - 1
    ELSE -1

\* C21: for every coordinate v in [0, Q_ks) of the key-switched ciphertext and the
\* even q of the parameters, mod_switch_odd(v, Q_ks, q) is floor(v * q / Q_ks) | 1,
\* an odd integer in [1, q - 1]: it is an index of the dlog map of size q, where
\* pbs looks up the bucket of the coordinate, and a unit of Z_q.
C21_ModSwitchOdd ==
    KeySwitched =>
        \A j \in 1..Len(pbs_scratch) :
            LET v == pbs_scratch[j]
                q == pbs_par.br_q
                r == mod_switch_odd(v, PbsLweQ, q)
            IN  /\ v \in 0..(PbsLweQ - 1) /\ q % 2 = 0
                /\ r = BitOr((v * q) \div PbsLweQ, 1)
                /\ r % 2 = 1
                /\ r \in 1..(q - 1)
                /\ r + 1 \in DOMAIN GKDlogMap(pbs_par)
                /\ Gcd(r, q) = 1
                /\ (j >= 2 /\ pbs_pc # "buckets") =>
                      BucketOf(j - 2) = GKDlogMap(pbs_par)[r + 1]

C21_Witness ==
    /\ pbs_pc = "test_poly"
    /\ pbs_par.br_q = 4
    /\ pbs_scratch[2] = PbsLweQ - 1 /\ pbs_scratch[3] = 0
    /\ mod_switch_odd(pbs_scratch[2], PbsLweQ, pbs_par.br_q) = 3
    /\ mod_switch_odd(pbs_scratch[3], PbsLweQ, pbs_par.br_q) = 1
    /\ BucketOf(0) # BucketOf(1)

\* C25: after the first mod switch Q -> Q_ks of pbs every coordinate of the LWE
\* ciphertext lies in [0, Q_ks), for every input coordinate in [0, Q).
C25_FirstModSwitchInRange ==
    pbs_pc = "key_switch" =>
        \A j \in 1..Len(pbs_lwe_in) : pbs_lwe_in[j] \in 0..(PbsLweQ - 1)

\* p(X) * X^e in Z_Q[X]/(X^n+1), coefficient by coefficient: coefficient k of the
\* product comes from coefficient (k - e) mod 2n of p, negated when that is >= n
RefRotate(p, e, n, q) ==
    [k1 \in 1..n |->
        LET i == ((k1 - 1) - e) % (2 * n)
        IN  IF i < n THEN p[i + 1] ELSE ModNeg(q, p[i - n + 1])]

\* pbs has set the trivial test RLWE and has not yet overwritten lwe_in
TestPolySet == pbs_pc \in {"blind_rotation", "sample_extract"}

\* the odd mod switch of b
OddB == mod_switch_odd(pbs_scratch[1], PbsLweQ, pbs_par.br_q)

\* the polynomial t that monomial_mul has written: part B when the embedding
\* factor is 1, lwe_in[..q/2] otherwise
RotatedTestVec ==
    IF EmbeddingFactor(pbs_par) = 1 THEN pbs_rlwe[2]
    ELSE SubSeq(pbs_lwe_in, 1, pbs_par.br_q \div 2)

\* C22: for odd g and the odd b' = mod_switch_odd(b) in [1, q - 1], pbs reduces
\* e = (g * b') mod q to the exponent e and the sign + when e <= q/2, and to the
\* exponent e - q/2 and the sign - when e > q/2; the exponent is below q/2, and
\* the polynomial monomial_mul writes is t(X) * X^(g * b') in Z_Q[X]/(X^(q/2)+1).
C22_TestPolynomialRotation ==
    TestPolySet =>
        LET q == pbs_par.br_q
            e == (pbs_par.g * OddB) % q
            mono == GbMonomial(e, q \div 2)
        IN  /\ pbs_par.g % 2 = 1 /\ OddB % 2 = 1 /\ OddB \in 1..(q - 1)
            /\ e <= q \div 2 => mono = [exp |-> e, sign |-> TRUE]
            /\ e > q \div 2 => mono = [exp |-> e - q \div 2, sign |-> FALSE]
            /\ mono.exp < q \div 2
            /\ RotatedTestVec = RefRotate(TestVec(q), pbs_par.g * OddB, q \div 2, PbsRlweQ)

C22_Witness ==
    /\ TestPolySet
    /\ pbs_par.br_q = 16 /\ pbs_par.g = 5 /\ EmbeddingFactor(pbs_par) = 1
    /\ (pbs_par.g * OddB) % 16 = 11
    /\ pbs_rlwe[2] = RefRotate(TestVec(16), 11, 8, PbsRlweQ)
    /\ pbs_rlwe[2][4] = PbsRlweQ - 1

\* blind_rotation is about to be entered with the trivial test RLWE
TrivialRlweHandedOver == pbs_pc = "blind_rotation" /\ pbs_trace = <<>>

\* C23: the ciphertext handed to blind_rotation has part A identically zero; with
\* an embedding factor e_f = 2N/q > 1 its part B holds coefficient i of
\* t(X) * X^(g*b) mod X^(q/2)+1 at position e_f * i for every i < q/2 and zero at
\* every other position, every written position is below N and lwe_in[..q/2] lies
\* within lwe_in; with e_f = 1 part B is that polynomial.
C23_TrivialTestRlwe ==
    /\ pbs_pc = "test_poly" => pbs_par.br_q \div 2 <= Len(pbs_lwe_in)
    /\ TrivialRlweHandedOver =>
        LET n == pbs_par.rlwe_n
            q == pbs_par.br_q
            e_f == EmbeddingFactor(pbs_par)
            t == RefRotate(TestVec(q), pbs_par.g * OddB, q \div 2, PbsRlweQ)
        IN  /\ Len(pbs_rlwe) = 2 /\ Len(pbs_rlwe[1]) = n /\ Len(pbs_rlwe[2]) = n
            /\ \A j \in 1..n : pbs_rlwe[1][j] = 0
            /\ e_f * q = 2 * n
            /\ e_f * (q \div 2 - 1) < n
            /\ e_f = 1 => pbs_rlwe[2] = t
            /\ e_f > 1 =>
                  \A pos \in 0..(n - 1) :
                      pbs_rlwe[2][pos + 1] =
                          IF pos % e_f = 0 THEN t[pos \div e_f + 1] ELSE 0

C23_Witness ==
    /\ TrivialRlweHandedOver
    /\ EmbeddingFactor(pbs_par) = 4 /\ pbs_par.rlwe_n = 8
    /\ pbs_rlwe[2][1] # 0 /\ pbs_rlwe[2][5] # 0
    /\ pbs_rlwe[2][2] = 0 /\ pbs_rlwe[2][8] = 0
    /\ \E j \in 1..2 : pbs_lwe_in[j] # 0

-----------------------------------------------------------------------------
(* Properties of single functions of pbs.rs *)

\* the call of the function fn has returned
Returned(fn) == call_args # None /\ call_args.fn = fn /\ call_ret # None

\* the polynomial p with every coefficient negated when keep is false
Signed(p, keep, q) == IF keep THEN p ELSE [j \in 1..Len(p) |-> ModNeg(q, p[j])]

\* C30: monomial_mul(p_in, p_out, e, sign, n) with e < n writes every position of
\* p_out exactly once, so that the output does not depend on what p_out held, and
\* the output is (sign ? +1 : -1) * p_in(X) * X^e in Z_Q[X]/(X^n+1): coefficient i
\* moves to i + e with its sign when i + e < n and to i + e - n with the sign
\* flipped otherwise; p_in is left as it was.
C30_MonomialMul ==
    Returned("monomial_mul") =>
        LET a == call_args
            r == call_ret
            n == a.ring_size
            e == a.mon_exp
        IN  /\ r.err = "none"
            /\ Len(r.writes) = n
            /\ \A pos \in 0..(n - 1) :
                  Cardinality({j \in 1..n : r.writes[j] = pos}) = 1
            /\ \A prev \in PreviousContents(n) :
                  monomial_mul(a.p_in, prev, e, a.mon_sign, n).p_out = r.p_out
            /\ r.p_out = Signed(RefRotate(a.p_in, e, n, PbsRlweQ), a.mon_sign, PbsRlweQ)
            /\ \A i \in 0..(n - 1) :
                  IF i + e < n
                  THEN r.p_out[i + e + 1] = Signed(a.p_in, a.mon_sign, PbsRlweQ)[i + 1]
                  ELSE r.p_out[i + e - n + 1] = Signed(a.p_in, ~a.mon_sign, PbsRlweQ)[i + 1]
            /\ r.p_in = a.p_in

C30_Witness ==
    /\ Returned("monomial_mul")
    /\ call_args.p_in = <<15, 8, 0, 1>> /\ call_args.mon_exp = 3 /\ ~call_args.mon_sign
    /\ call_args.p_out = <<9, 10, 11, 12>>
    /\ call_ret.p_out = <<8, 0, 1, 1>>

\* coefficient k of a * b in Z_q[X]/(X^n+1), by the schoolbook negacyclic
\* convolution; the coefficients of b may be negative
RingMulCoeff(a, b, k, n, q) ==
    LET term == [i \in 0..(n - 1) |->
                    IF k - i >= 0 THEN a[i + 1] * b[k - i + 1]
                    ELSE -(a[i + 1] * b[k - i + n + 1])]
    IN  SumOver(term, 0, n - 1) % q

\* C24: for every RLWE ciphertext (a, b) of ring size N, every secret s and every
\* index in [0, N), sample_extract writes the LWE ciphertext (b', a'_0..a'_{N-1})
\* with b' = b[index], a'_i = a[index - i] for i <= index and
\* a'_i = -a[N + index - i] for i > index, so that b' - <a', s> is coefficient
\* index of b - a * s in Z_Q[X]/(X^N+1); it fails an assertion when the output
\* length is not N + 1, and leaves rlwe_in as it was.
C24_SampleExtract ==
    Returned("sample_extract") =>
        LET a == call_args.rlwe_in[1]
            b == call_args.rlwe_in[2]
            n == Len(a)
            index == call_args.index
            out == call_ret.lwe_out
        IN  /\ call_ret.rlwe_in = call_args.rlwe_in
            /\ Len(call_args.lwe_out) # n + 1 =>
                  call_ret.err = "assertion" /\ out = call_args.lwe_out
            /\ Len(call_args.lwe_out) = n + 1 =>
                  /\ call_ret.err = "none"
                  /\ Len(out) = n + 1
                  /\ out[1] = b[index + 1]
                  /\ \A i \in 0..(n - 1) :
                        out[i + 2] = IF i <= index THEN a[index - i + 1]
                                     ELSE ModNeg(PbsRlweQ, a[n + index - i + 1])
                  /\ \A s \in TernarySecrets(n) :
                        LET inner == [i \in 0..(n - 1) |-> out[i + 2] * s[i + 1]]
                        IN  (out[1] - SumOver(inner, 0, n - 1)) % PbsRlweQ
                              = (b[index + 1] - RingMulCoeff(a, s, index, n, PbsRlweQ))
                                    % PbsRlweQ

C24_Witness ==
    /\ Returned("sample_extract")
    /\ call_args.rlwe_in = << <<15, 0, 8, 3>>, <<0, 0, 11, 2>> >>
    /\ call_args.index = 2
    /\ call_ret.err = "none"
    /\ call_ret.lwe_out = <<11, 8, 0, 15, 13>>

-----------------------------------------------------------------------------
(* Properties of single functions of rgsw/keygen.rs *)

\* the polynomial an auto map sends p to: coefficient i goes to position
\* to_index[i], negated when the sign is false; positions never written hold "none"
RECURSIVE ApplyAutoMapFold(_, _, _, _, _)
ApplyAutoMapFold(p, auto_map_index, auto_sign_index, i, out) ==
    IF i > Len(p) THEN out
    ELSE ApplyAutoMapFold(p, auto_map_index, auto_sign_index, i + 1,
                          [out EXCEPT ![auto_map_index[i] + 1] =
                              IF auto_sign_index[i] THEN p[i] ELSE -p[i]])

\* p(X^k) in Z[X]/(X^n+1), coefficient by coefficient: X^(i*k) is X^j when
\* i*k = j mod 2n and -X^j when i*k = j + n mod 2n
RefAutomorphism(p, k, n) ==
    [j1 \in 1..n |->
        LET term == [i \in 0..(n - 1) |->
                        IF (i * k - (j1 - 1)) % (2 * n) = 0 THEN p[i + 1]
                        ELSE IF (i * k - (j1 - 1) - n) % (2 * n) = 0 THEN -p[i + 1]
                        ELSE 0]
        IN  SumOver(term, 0, n - 1)]

\* C29: generate_auto_map(N, k) fails its assertion for every even k; for every odd
\* k, positive or negative, its index map is a permutation of 0..N-1 with
\* to_index = (i * k' mod 2N) mod N and the sign false exactly when
\* i * k' mod 2N >= N, where k' = k for k > 0 and k' = 2N - (|k| mod 2N) for k < 0;
\* applied to a polynomial it writes every coefficient once and gives p(X^k) in
\* Z[X]/(X^N+1).
C29_GenerateAutoMap ==
    Returned("generate_auto_map") =>
        LET n == call_args.ring_size
            k == call_args.k
            abs_k == IF k < 0 THEN -k ELSE k
            k1 == IF k > 0 THEN k ELSE 2 * n - (abs_k % (2 * n))
            r == call_ret
            p == [j \in 1..n |-> j]
        IN  /\ abs_k % 2 = 0 => r.err = "assertion"
            /\ abs_k % 2 = 1 =>
                  /\ r.err = "none"
                  /\ Len(r.auto_map_index) = n /\ Len(r.auto_sign_index) = n
                  /\ {r.auto_map_index[i] : i \in 1..n} = 0..(n - 1)
                  /\ \A i \in 0..(n - 1) :
                        /\ r.auto_map_index[i + 1] = ((i * k1) % (2 * n)) % n
                        /\ r.auto_sign_index[i + 1] = ~((i * k1) % (2 * n) >= n)
                  /\ ApplyAutoMapFold(p, r.auto_map_index, r.auto_sign_index, 1,
                                      [j \in 1..n |-> "none"])
                        = RefAutomorphism(p, k, n)

C29_Witness ==
    /\ Returned("generate_auto_map")
    /\ call_args.ring_size = 8 /\ call_args.k = -5
    /\ call_ret.err = "none"
    /\ call_ret.auto_map_index[2] = 3 /\ ~call_ret.auto_sign_index[2]
    /\ \E i \in 1..8 : call_ret.auto_sign_index[i] /\ call_ret.auto_map_index[i] # 0

\* a * b in Z_q[X]/(X^n+1) by the schoolbook negacyclic convolution
RingMul(a, b, n, q) == [k1 \in 1..n |-> RingMulCoeff(a, b, k1 - 1, n, q)]

\* a - b over Z_q
RingSub(a, b, q) == [j \in 1..Len(a) |-> (a[j] - b[j]) % q]

\* C26: for every secret s and odd auto_k, seeded_auto_key_gen computes
\* neg_s_auto = -s(X^auto_k) in Z_Q[X]/(X^N+1) and outputs the d rows
\* b_i = a_i * s + e_i + beta_i * (-s(X^auto_k)), a_i being the i-th polynomial
\* drawn from p_rng; with zero noise b_i - a_i * s = beta_i * (-s(X^auto_k)) for
\* every gadget element beta_i.
C26_AutoKeyContents ==
    Returned("seeded_auto_key_gen") =>
        LET n == KgRing.n
            q == KgRing.q
            s == call_args.s
            r == call_ret
            s_auto == RefAutomorphism(s, call_args.auto_k, n)
            neg_s_auto == [j \in 1..n |-> (-s_auto[j]) % q]
        IN  /\ r.err = "none"
            /\ r.neg_s_auto = neg_s_auto
            /\ Len(r.ksk_out) = Len(call_args.gadget_vector)
            /\ \A i \in 1..Len(call_args.gadget_vector) :
                  /\ r.a[i] = call_args.p_rng[i]
                  /\ r.ksk_out[i] =
                        ElwiseAdd(q,
                            ElwiseAdd(q, RingMul(r.a[i], s, n, q), call_args.e[i]),
                            ElwiseScalarMul(q, neg_s_auto, call_args.gadget_vector[i]))
                  /\ (\A j \in 1..n : call_args.e[i][j] = 0) =>
                        RingSub(r.ksk_out[i], RingMul(r.a[i], s, n, q), q)
                            = ElwiseScalarMul(q, neg_s_auto, call_args.gadget_vector[i])

C26_Witness ==
    /\ Returned("seeded_auto_key_gen")
    /\ call_args.s = <<1, 0, -1, 0>> /\ call_args.auto_k = 3
    /\ call_args.p_rng[1] = <<1, 2, 3, 4>>
    /\ \A i \in 1..2 : call_args.e[i] = <<0, 0, 0, 0>>
    /\ call_ret.neg_s_auto = <<16, 0, 16, 0>>
    /\ call_ret.ksk_out[2] # call_ret.ksk_out[1]

\* B - A * s for the RLWE ciphertext (A, B), by the schoolbook product
Phase(part_a, part_b, s) ==
    RingSub(part_b, RingMul(part_a, s, KgRing.n, KgRing.q), KgRing.q)

\* -(s * m) * beta and m * beta in the ring
NegSMBeta(s, m, beta) ==
    [j \in 1..KgRing.n |-> (-(RingMul(m, s, KgRing.n, KgRing.q)[j] * beta)) % KgRing.q]
MBeta(m, beta) == [j \in 1..KgRing.n |-> (m[j] * beta) % KgRing.q]

\* the noise of a public key encryption: e_pk * u + e1 - e0 * s
PkNoise(e_pk, u, e0, e1, s) ==
    RingSub(ElwiseAdd(KgRing.q, RingMul(e_pk, u, KgRing.n, KgRing.q), e1),
            RingMul(e0, s, KgRing.n, KgRing.q), KgRing.q)

\* C27: secret_key_encrypt_rgsw requires an output of exactly 2 * d_a + d_b rows and
\* public_key_encrypt_rgsw of exactly 2 * d_a + 2 * d_b rows, and fails an assertion
\* otherwise; in both, for j < d_a the rows (j, d_a + j) are an RLWE ciphertext
\* (A, B) with B - A * s = -s * m * beta_a[j] + noise, and the rows of RLWE'(m) that
\* follow carry m * beta_b[j] in part B; part A of RLWE'(m) is left out, drawn from
\* p_rng, in the secret-key variant only.
C27_RgswLayout ==
    /\ Returned("secret_key_encrypt_rgsw") =>
        LET c == call_args
            r == call_ret
            d_a == Len(c.gadget_a)
            d_b == Len(c.gadget_b)
        IN  /\ c.out_rows # 2 * d_a + d_b => r.err = "assertion"
            /\ c.out_rows = 2 * d_a + d_b =>
                  /\ r.err = "none" /\ Len(r.out_rgsw) = 2 * d_a + d_b
                  /\ \A j \in 1..d_a :
                        Phase(r.out_rgsw[j], r.out_rgsw[d_a + j], c.s)
                           = ElwiseAdd(KgRing.q, NegSMBeta(c.s, c.m, c.gadget_a[j]),
                                       c.rnd.e_nsm[j])
                  /\ \A j \in 1..d_b :
                        /\ r.a[j] = c.p_rng[j]
                        /\ Phase(r.a[j], r.out_rgsw[2 * d_a + j], c.s)
                              = ElwiseAdd(KgRing.q, MBeta(c.m, c.gadget_b[j]), c.rnd.e_m[j])
    /\ Returned("public_key_encrypt_rgsw") =>
        LET c == call_args
            r == call_ret
            d_a == Len(c.gadget_a)
            d_b == Len(c.gadget_b)
        IN  /\ c.out_rows # 2 * d_a + 2 * d_b => r.err = "assertion"
            /\ c.out_rows = 2 * d_a + 2 * d_b =>
                  /\ r.err = "none" /\ Len(r.out_rgsw) = 2 * d_a + 2 * d_b
                  /\ \A j \in 1..d_a :
                        Phase(r.out_rgsw[j], r.out_rgsw[d_a + j], c.s)
                           = ElwiseAdd(KgRing.q, NegSMBeta(c.s, c.m, c.gadget_a[j]),
                                       PkNoise(c.e_pk, c.rnd.u_nsm[j], c.rnd.e0_nsm[j],
                                               c.rnd.e1_nsm[j], c.s))
                  /\ \A j \in 1..d_b :
                        Phase(r.out_rgsw[2 * d_a + j], r.out_rgsw[2 * d_a + d_b + j], c.s)
                           = ElwiseAdd(KgRing.q, MBeta(c.m, c.gadget_b[j]),
                                       PkNoise(c.e_pk, c.rnd.u_m[j], c.rnd.e0_m[j],
                                               c.rnd.e1_m[j], c.s))

C27_Witness ==
    /\ Returned("public_key_encrypt_rgsw")
    /\ call_ret.err = "none" /\ Len(call_ret.out_rgsw) = 10
    /\ call_args.m = <<3, 0, 16, 5>> /\ call_args.s = <<0, 1, -1, 0>>
    /\ call_args.e_pk = <<1, 0, 16, 0>>
    /\ call_args.rnd.e0_nsm[1] = <<1, 0, 16, 0>>
    /\ Phase(call_ret.out_rgsw[2], call_ret.out_rgsw[4], call_args.s)
          # NegSMBeta(call_args.s, call_args.m, 4)

-----------------------------------------------------------------------------
(* Properties of the functions that draw from p_rng *)

\* the shape of a call: the number of polynomials its output needs from p_rng
PRngShape(c) ==
    CASE c.fn = "seeded_rlwe_ksk_gen" -> Len(c.gadget_vector)
      [] c.fn = "secret_key_encrypt_rgsw" -> Len(c.gadget_b)
      [] c.fn = "non_interactive_rgsw_ct" -> Len(c.gadget_vec)
      [] OTHER -> 1

\* the calls of the same function from the same p_rng state and with the same
\* shape, with any secret, message and noise
SamePublicInputs(c) ==
    { c2 \in PRngInputs(c.fn) : c2.p_rng = c.p_rng /\ PRngShape(c2) = PRngShape(c) }

\* C28: in public_key_share, seeded_secret_key_encrypt_rlwe, rlwe_public_key,
\* seeded_rlwe_ksk_gen, secret_key_encrypt_rgsw and non_interactive_rgsw_ct the
\* polynomials drawn from p_rng and the number of draws depend only on the p_rng
\* state and the shape: a second run from the same p_rng state with another secret,
\* message and noise draws the same polynomials a and leaves p_rng in the same
\* state, and what is drawn is the next polynomials of the p_rng stream, as many as
\* the shape says, never a secret-dependent or noise value.
C28_PublicRandomnessIndependentOfSecrets ==
    \A fn \in PRngFunctions :
        Returned(fn) =>
            LET n == PRngShape(call_args)
            IN  /\ Len(call_ret.a) = n
                /\ call_ret.a = SubSeq(call_args.p_rng, 1, n)
                /\ call_ret.p_rng = SubSeq(call_args.p_rng, n + 1, Len(call_args.p_rng))
                /\ \A c2 \in SamePublicInputs(call_args) :
                      LET second == PRngCall(c2)
                      IN  /\ second.a = call_ret.a
                          /\ second.p_rng = call_ret.p_rng

C28_Witness ==
    /\ Returned("non_interactive_rgsw_ct")
    /\ Len(call_ret.a) = 3
    /\ \E c2 \in SamePublicInputs(call_args) :
          /\ c2.s # call_args.s /\ c2.m = call_args.m /\ c2.u = call_args.u
          /\ c2.rnd = call_args.rnd
          /\ PRngCall(c2).out # call_ret.out

=============================================================================
